---- MODULE Spec2Model ----
(***************************************************************************)
(* Model of the FIB reconciler of Open/R (openr/fib/Fib.cpp).              *)
(*                                                                         *)
(* The reconciler is a single-threaded event loop: every callback runs to  *)
(* completion, so each callback is one action.  Time is abstracted: a      *)
(* scheduled timer may fire at any moment; the delay it was scheduled      *)
(* with is kept as data.  An agent RPC either returns or throws; which     *)
(* of the RPCs of one callback throws is a nondeterministic choice.        *)
(***************************************************************************)
EXTENDS Integers, Sequences, FiniteSets, TLC

(***************************************************************************)
(* Universe of the model                                                   *)
(***************************************************************************)
MyNodeName == "node1"
OtherNodeName == "node2"
NodeNames == {MyNodeName, OtherNodeName}

Interfaces == {"eth0", "eth1"}
\* value of an absent folly::Optional ifName
NoIfName == "none"
\* the callback received no publication
NoPublisher == ""

\* number of times the agent may restart
MaxRestarts == 1
\* number of times the backoff may double: a full sync may fail while the
\* current backoff is below InitialBackoff * 2^MaxDoublings
MaxDoublings == 1

Prefixes == {"10.0.0.0/24"}
Labels == {100}

\* epochs aliveSince() may return
AliveEpochs == 1..(MaxRestarts + 1)

\* nexthops of unicast routes: every one carries an interface name
UnicastNextHops ==
    { [ifName |-> "eth0", weight |-> 2],
      [ifName |-> "eth1", weight |-> 1] }

\* nexthops of MPLS routes: POP_AND_LOOKUP carries no interface name
MplsNextHops ==
    { [ifName |-> "eth0", weight |-> 1],
      [ifName |-> NoIfName, weight |-> 1] }

NonEmptySubsets(S) == (SUBSET S) \ {{}}

PartialFunctions(D, R) == UNION { [S -> R] : S \in SUBSET D }

Restrict(f, S) == [x \in S |-> f[x]]

UnicastRoutes == [nextHops : NonEmptySubsets(UnicastNextHops), doNotInstall : BOOLEAN]
MplsRoutes == [nextHops : NonEmptySubsets(MplsNextHops)]

\* thrift::RouteDatabase, keyed by destination / label
RouteDatabases ==
    [thisNodeName : NodeNames,
     unicastRoutes : PartialFunctions(Prefixes, UnicastRoutes),
     mplsRoutes : PartialFunctions(Labels, MplsRoutes)]

\* thrift::InterfaceDatabase: interface name -> isUp
InterfaceDatabases ==
    [thisNodeName : NodeNames,
     interfaces : PartialFunctions(Interfaces, BOOLEAN)]

\* the publications of the specification Spec: one unicast route and one
\* MPLS route, each present or absent, and the status of eth0
SmallRouteDatabases ==
    { db \in RouteDatabases :
        /\ \A p \in DOMAIN db.unicastRoutes :
              db.unicastRoutes[p] = [nextHops |-> UnicastNextHops, doNotInstall |-> FALSE]
        /\ \A l \in DOMAIN db.mplsRoutes :
              db.mplsRoutes[l] = [nextHops |-> MplsNextHops] }

SmallInterfaceDatabases ==
    { db \in InterfaceDatabases : DOMAIN db.interfaces \subseteq {"eth0"} }

EmptyFunction == [x \in {} |-> {}]

EmptyRouteDb(name) ==
    [thisNodeName |-> name, unicastRoutes |-> EmptyFunction, mplsRoutes |-> EmptyFunction]

EmptyDelta ==
    [unicastRoutesToUpdate |-> EmptyFunction, unicastRoutesToDelete |-> {},
     mplsRoutesToUpdate |-> EmptyFunction, mplsRoutesToDelete |-> {}]

(***************************************************************************)
(* Constants of the program                                                *)
(***************************************************************************)
InitialBackoff == 8
MaxBackoff == 4096
\* coldStartDuration_, in ms
ColdStartDuration == 1000

(***************************************************************************)
(* Pure helpers (openr/common/Util, ExponentialBackoff, ZmqTimeout)        *)
(***************************************************************************)
Min(a, b) == IF a <= b THEN a ELSE b

\* getBestNextHopsUnicast: the nexthops of highest weight
getBestNextHopsUnicast(nextHops) ==
    { n \in nextHops : \A m \in nextHops : m.weight <= n.weight }

\* getBestNextHopsMpls: the nexthops of highest weight
getBestNextHopsMpls(nextHops) ==
    { n \in nextHops : \A m \in nextHops : m.weight <= n.weight }

\* createUnicastRoutesWithBestNexthops: dest -> best nexthops; the routes
\* are built anew from (dest, best nexthops)
createUnicastRoutesWithBestNexthops(routes) ==
    [p \in DOMAIN routes |-> getBestNextHopsUnicast(routes[p].nextHops)]

createMplsRoutesWithBestNextHops(routes) ==
    [l \in DOMAIN routes |-> getBestNextHopsMpls(routes[l].nextHops)]

\* findDeltaRoutes(newRouteDb, oldRouteDb): a route is updated iff it is new
\* or its best nexthops differ, deleted iff it is absent from newRouteDb; an
\* update carries the best nexthops only
findDeltaRoutes(newRouteDb, oldRouteDb) ==
    LET newU == newRouteDb.unicastRoutes
        oldU == oldRouteDb.unicastRoutes
        newM == newRouteDb.mplsRoutes
        oldM == oldRouteDb.mplsRoutes
        updU == { p \in DOMAIN newU :
                    \/ p \notin DOMAIN oldU
                    \/ getBestNextHopsUnicast(newU[p].nextHops)
                         # getBestNextHopsUnicast(oldU[p].nextHops) }
        updM == { l \in DOMAIN newM :
                    \/ l \notin DOMAIN oldM
                    \/ getBestNextHopsMpls(newM[l].nextHops)
                         # getBestNextHopsMpls(oldM[l].nextHops) }
    IN  [unicastRoutesToUpdate |->
            [p \in updU |-> [nextHops |-> getBestNextHopsUnicast(newU[p].nextHops)]],
         unicastRoutesToDelete |-> (DOMAIN oldU) \ (DOMAIN newU),
         mplsRoutesToUpdate |->
            [l \in updM |-> [nextHops |-> getBestNextHopsMpls(newM[l].nextHops)]],
         mplsRoutesToDelete |-> (DOMAIN oldM) \ (DOMAIN newM)]

\* ExponentialBackoff: the current backoff is 0 after a success, the initial
\* backoff after a first error, and doubles up to the maximum afterwards
reportSuccess(backoff) == 0

reportError(backoff) ==
    IF backoff = 0 THEN InitialBackoff ELSE Min(2 * backoff, MaxBackoff)

\* taken right after reportError: the whole current backoff remains
getTimeRemainingUntilRetry(backoff) == backoff

\* ZmqTimeout
NotScheduled == [scheduled |-> FALSE, delay |-> 0]

scheduleTimeout(delay) == [scheduled |-> TRUE, delay |-> delay]

isScheduled(timer) == timer.scheduled

(***************************************************************************)
(* State                                                                   *)
(***************************************************************************)
VARIABLES
    dryrun_,                 \* configuration
    enableFibSync_,          \* configuration
    enableSegmentRouting_,   \* configuration
    routeDb_,                \* installable routes
    doNotInstallRouteDb_,    \* routes partitioned off at ingestion
    interfaceStatusDb_,      \* interface name -> isUp, for the names seen
    dirtyRouteDb_,           \* last apply failed
    syncRoutesTimer_,        \* one-shot full-sync timer
    healthChecker_,          \* periodic: TRUE iff armed
    syncFibTimer_,           \* periodic: TRUE iff armed
    expBackoff_,             \* current backoff in ms
    latestAliveSince_,       \* epoch last returned by aliveSince()
    client_,                 \* TRUE iff an agent client exists
    rpcs,                    \* observation: RPCs issued by the last callback
    lastEvent,               \* observation: the last callback that ran
    tick,                    \* observation: parity of the callbacks run
    lastDelta,               \* observation: delta of the last updateRoutes
    lastSnapshot,            \* observation: last accepted RouteDatabase
    coldStart,               \* observation: cold-start timer not yet fired
    affectedSince,           \* observation: interfaces that went up->down
                             \* since the last accepted snapshot
    downSince,               \* observation: interfaces reported down since
                             \* the last accepted snapshot
    lastPublisher,           \* observation: this_node_name of the publication
                             \* the last callback received, if it received one
    aborted,                 \* TRUE iff a CHECK failed: the process is gone
    lastSkip,                \* observation: why the last callback's
                             \* updateRoutes made no RPC, "none" otherwise
    lastAffected,            \* observation: affectedInterfaces of the last
                             \* callback, empty when it computed none
    lastInterfaces           \* observation: the interfaces of the
                             \* InterfaceDatabase the last callback received,
                             \* empty when it received none

config == <<dryrun_, enableFibSync_, enableSegmentRouting_>>

\* what the specification SpecRoutes records of the publications
history == <<lastSnapshot, affectedSince, downSince>>

vars == <<dryrun_, enableFibSync_, enableSegmentRouting_, routeDb_,
          doNotInstallRouteDb_, interfaceStatusDb_, dirtyRouteDb_,
          syncRoutesTimer_, healthChecker_, syncFibTimer_, expBackoff_,
          latestAliveSince_, client_, rpcs, lastEvent, tick,
          lastDelta, lastSnapshot, coldStart, affectedSince, downSince,
          lastPublisher, aborted, lastSkip, lastAffected, lastInterfaces>>

(***************************************************************************)
(* State of the PersistentStore                                            *)
(***************************************************************************)
VARIABLES
    storeDryrun_,            \* configuration: PersistentStore::dryrun_
    saveDbTimerBackoff_,     \* [configured, initial, max, current]
    saveDbTimer_,            \* one-shot save timer
    database_,               \* keyVals: key -> value
    storageFile,             \* what is on disk at storageFilePath_
    storeRunning,            \* TRUE from construction to destruction
    response,                \* observation: the last StoreResponse
    storeEvent,              \* observation: the last step of the store
    wroteToDisk,             \* observation: the last step wrote the file
    saveFailed,              \* observation: the last step called
                             \* saveDatabaseToDisk, which returned false
    storeTick,               \* observation: parity of the steps taken
    acknowledged,            \* history: a STORE or ERASE succeeded since
                             \* the construction
    shutdown                 \* history: how the last destruction went

storeVars == <<storeDryrun_, saveDbTimerBackoff_, saveDbTimer_, database_,
               storageFile, storeRunning, response, storeEvent, wroteToDisk,
               saveFailed, storeTick, acknowledged, shutdown>>

NoResponse == [requestType |-> "NONE", key |-> "", success |-> FALSE, data |-> ""]

NoBackoff == [configured |-> FALSE, initial |-> 0, max |-> 0, current |-> 0]

\* a storage path with no file
NoFile == [exists |-> FALSE, readable |-> FALSE, complete |-> FALSE, pairs |-> {}]

\* no PersistentStore is constructed
NoStore ==
    /\ storeDryrun_ = FALSE
    /\ saveDbTimerBackoff_ = NoBackoff
    /\ saveDbTimer_ = NotScheduled
    /\ database_ = EmptyFunction
    /\ storageFile = NoFile
    /\ storeRunning = FALSE
    /\ response = NoResponse
    /\ storeEvent = "none"
    /\ wroteToDisk = FALSE
    /\ saveFailed = FALSE
    /\ storeTick = 0
    /\ acknowledged = FALSE
    /\ shutdown = "none"

(***************************************************************************)
(* State of the netlink route encoder                                      *)
(***************************************************************************)
VARIABLES
    nlOp,                    \* the encode operation called
    nlRoute,                 \* the fbnl::Route it is called with
    nlMessage,               \* the NetlinkRouteMessage
    nlResult                 \* the ResultCode returned, "NONE" before the call

nlVars == <<nlOp, nlRoute, nlMessage, nlResult>>

\* NetlinkRouteMessage::NetlinkRouteMessage: nothing is encoded yet
NewMessage ==
    [type |-> "NONE", flags |-> {}, family |-> "AF_UNSPEC", dstLen |-> 0,
     table |-> "RT_TABLE_UNSPEC", protocol |-> 0,
     scope |-> "RT_SCOPE_UNIVERSE", rtmType |-> "NONE", rtmFlags |-> {},
     attributes |-> <<>>]

\* no route is being encoded
NoNetlink ==
    /\ nlOp = "none"
    /\ nlRoute = <<>>
    /\ nlMessage = NewMessage
    /\ nlResult = "NONE"

(***************************************************************************)
(* State of the convergence traces of the reconciler (Fib::perfDb_)        *)
(***************************************************************************)
VARIABLES
    perfDb_,                 \* the stored traces, oldest first
    maybePerfEvents_,        \* the trace of the publication being programmed
    recentPerfEventCreateTs_, \* creation time of the last trace looked at
    perfReply,               \* observation: the PERF_DB_GET reply of the
                             \* last step, if it answered one
    perfLogged,              \* history: every trace stored, in order
    perfEvent                \* observation: what the last step did with the
                             \* trace

perfVars == <<perfDb_, maybePerfEvents_, recentPerfEventCreateTs_, perfReply,
              perfLogged, perfEvent>>

\* an absent folly::Optional<thrift::PerfEvents>
NoPerfEvents == <<-1>>

\* no PERF_DB_GET was answered
NoPerfReply == [thisNodeName |-> "", eventInfo |-> <<>>]

\* Fib::Fib: no trace is stored and none is being programmed
NoPerf ==
    /\ perfDb_ = <<>>
    /\ maybePerfEvents_ = NoPerfEvents
    /\ recentPerfEventCreateTs_ = 0
    /\ perfReply = NoPerfReply
    /\ perfLogged = <<>>
    /\ perfEvent = "none"

(***************************************************************************)
(* State of the forwarding agent the reconciler programs                   *)
(***************************************************************************)
VARIABLES
    agentUnicast,            \* the agent's unicast table: prefix -> nexthops
    agentMpls,               \* the agent's MPLS table: label -> nexthops
    agentAliveSince,         \* the epoch the agent answers aliveSince() with
    agentServed,             \* history: an RPC returned since the agent
                             \* last started
    agentSynced              \* history: a full sync succeeded since the
                             \* agent last started

agentVars == <<agentUnicast, agentMpls, agentAliveSince, agentServed,
               agentSynced>>

\* an agent that has just started: its tables are empty
NoAgent ==
    /\ agentUnicast = EmptyFunction
    /\ agentMpls = EmptyFunction
    /\ agentAliveSince = 1
    /\ agentServed = FALSE
    /\ agentSynced = FALSE

(***************************************************************************)
(* The surroundings of the reconciler, for the recovery after failures     *)
(***************************************************************************)
VARIABLES
    quiet,                   \* TRUE from the point on from which every agent
                             \* RPC returns and no publication arrives
    dirtyCause,              \* history: what set dirtyRouteDb_ last
    recoveredFrom            \* history: the cause of the first dirty state
                             \* left after that point

envVars == <<quiet, dirtyCause, recoveredFrom>>

NoCause == "none"

\* RPCs may fail and publications may arrive
NoQuiet ==
    /\ quiet = FALSE
    /\ dirtyCause = NoCause
    /\ recoveredFrom = NoCause

\* slip: the full-sync timer is not scheduled at construction
ColdStartTimerNotScheduled == NotScheduled

\* Fib::Fib: the full-sync timer is scheduled after the cold-start duration
ColdStartTimer == scheduleTimeout(ColdStartDuration)

\* Fib::Fib: the health checker runs in non-dryrun mode only
HealthCheckerArmed == ~dryrun_

\* slip: enableFibSync_ is not looked at
SyncFibTimerArmedWithoutFibSync == ~dryrun_

\* Fib::Fib: the periodic sync runs in non-dryrun mode with fib sync enabled
SyncFibTimerArmed == ~dryrun_ /\ enableFibSync_

\* Fib::Fib
Init ==
    /\ dryrun_ \in BOOLEAN
    /\ enableFibSync_ \in BOOLEAN
    /\ enableSegmentRouting_ \in BOOLEAN
    /\ routeDb_ = EmptyRouteDb(MyNodeName)
    /\ doNotInstallRouteDb_ = EmptyRouteDb("")
    /\ interfaceStatusDb_ = EmptyFunction
    /\ dirtyRouteDb_ = FALSE
    /\ syncRoutesTimer_ = ColdStartTimer
    /\ healthChecker_ = HealthCheckerArmed
    /\ syncFibTimer_ = SyncFibTimerArmed
    /\ expBackoff_ = 0
    /\ latestAliveSince_ = 0
    /\ client_ = FALSE
    /\ rpcs = <<>>
    /\ lastEvent = "init"
    /\ tick = 0
    /\ lastDelta = EmptyDelta
    /\ lastSnapshot = EmptyRouteDb(MyNodeName)
    /\ coldStart = TRUE
    /\ affectedSince = {}
    /\ downSince = {}
    /\ lastPublisher = NoPublisher
    /\ aborted = FALSE
    /\ lastSkip = "none"
    /\ lastAffected = {}
    /\ lastInterfaces = EmptyFunction
    /\ NoStore
    /\ NoNetlink
    /\ NoPerf
    /\ NoAgent
    /\ NoQuiet

(***************************************************************************)
(* Agent RPCs                                                              *)
(***************************************************************************)
Rpc(op, arg) == [op |-> op, arg |-> arg, ok |-> TRUE]

ProgrammingOps ==
    {"deleteUnicastRoutes", "addUnicastRoutes", "deleteMplsRoutes",
     "addMplsRoutes", "syncFib", "syncMplsFib"}

DeltaOps ==
    {"deleteUnicastRoutes", "addUnicastRoutes", "deleteMplsRoutes",
     "addMplsRoutes"}

\* slip: the calls after the one that throws are made as well
IssuedAll(calls, failAt) ==
    [i \in 1..Len(calls) |-> [calls[i] EXCEPT !.ok = (i # failAt)]]

\* The RPCs issued when the failAt-th call of calls throws (0: none throws):
\* the calls before it return, the calls after it are not made
Issued(calls, failAt) ==
    IF failAt = 0
    THEN calls
    ELSE [i \in 1..failAt |-> [calls[i] EXCEPT !.ok = (i < failAt)]]

(***************************************************************************)
(* Fib::syncRouteDbDebounced                                               *)
(***************************************************************************)
\* slip: no run is scheduled
syncRouteDbNotScheduled(timer) == timer

\* slip: the immediate run is scheduled even when one is pending
syncRouteDbAtOnce(timer) == scheduleTimeout(0)

\* an immediate run is scheduled if the previous one is not scheduled
syncRouteDbDebounced(timer) ==
    IF ~isScheduled(timer) THEN scheduleTimeout(0) ELSE timer

(***************************************************************************)
(* Fib::updateRoutes                                                       *)
(***************************************************************************)
\* slip: MPLS routes are sent whatever the configuration
SendMplsRoutesAlways == TRUE

\* enableSegmentRouting_: MPLS routes are sent to the agent
SendMplsRoutes == enableSegmentRouting_

\* slip: the stale unicast routes are never deleted from the agent
DeleteUnicastRoutesCallSkipped(routeDbDelta) == <<>>

\* each RPC of a delta apply is made only when its list is not empty
DeleteUnicastRoutesCall(routeDbDelta) ==
    IF routeDbDelta.unicastRoutesToDelete # {}
    THEN <<Rpc("deleteUnicastRoutes", routeDbDelta.unicastRoutesToDelete)>>
    ELSE <<>>

AddUnicastRoutesCall(routeDbDelta) ==
    LET patchedUnicastRoutesToUpdate ==
            createUnicastRoutesWithBestNexthops(routeDbDelta.unicastRoutesToUpdate)
    IN  IF DOMAIN patchedUnicastRoutesToUpdate # {}
        THEN <<Rpc("addUnicastRoutes", patchedUnicastRoutesToUpdate)>>
        ELSE <<>>

DeleteMplsRoutesCall(routeDbDelta) ==
    IF SendMplsRoutes /\ routeDbDelta.mplsRoutesToDelete # {}
    THEN <<Rpc("deleteMplsRoutes", routeDbDelta.mplsRoutesToDelete)>>
    ELSE <<>>

AddMplsRoutesCall(routeDbDelta) ==
    LET mplsRoutesToUpdate ==
            createMplsRoutesWithBestNextHops(routeDbDelta.mplsRoutesToUpdate)
    IN  IF SendMplsRoutes /\ DOMAIN mplsRoutesToUpdate # {}
        THEN <<Rpc("addMplsRoutes", mplsRoutesToUpdate)>>
        ELSE <<>>

\* slip: the routes are added before the stale ones are deleted
UpdateRoutesCallsAddFirst(routeDbDelta) ==
    AddUnicastRoutesCall(routeDbDelta) \o DeleteUnicastRoutesCall(routeDbDelta)
        \o AddMplsRoutesCall(routeDbDelta) \o DeleteMplsRoutesCall(routeDbDelta)

\* the RPCs of a delta apply, in the order they are made
UpdateRoutesCalls(routeDbDelta) ==
    DeleteUnicastRoutesCall(routeDbDelta) \o AddUnicastRoutesCall(routeDbDelta)
        \o DeleteMplsRoutesCall(routeDbDelta) \o AddMplsRoutesCall(routeDbDelta)

\* slip: the pending full sync is not looked at
SkipDeltaForPendingSyncNever == FALSE

\* a pending full sync supersedes the delta
SkipDeltaForPendingSync == isScheduled(syncRoutesTimer_)

\* slip: dryrun is not looked at
SkipProgrammingNever == FALSE

\* dryrun: nothing is programmed
SkipProgramming == dryrun_

\* slip: the dirty flag is not looked at
SkipDeltaForDirtyNever == FALSE

\* a previous programming attempt failed: the delta is skipped as well
SkipDeltaForDirty == dirtyRouteDb_

updateRoutes(routeDbDelta) ==
    /\ lastDelta' = routeDbDelta
    /\ IF SkipProgramming
       THEN /\ rpcs' = <<>>
            /\ lastSkip' = "dryrun"
            /\ UNCHANGED <<dirtyRouteDb_, syncRoutesTimer_, client_>>
       ELSE IF SkipDeltaForPendingSync
       THEN /\ rpcs' = <<>>
            /\ lastSkip' = "pendingSync"
            /\ UNCHANGED <<dirtyRouteDb_, syncRoutesTimer_, client_>>
       ELSE IF SkipDeltaForDirty
       THEN /\ rpcs' = <<>>
            /\ lastSkip' = "dirty"
            /\ syncRoutesTimer_' = syncRouteDbDebounced(syncRoutesTimer_)
            /\ UNCHANGED <<dirtyRouteDb_, client_>>
       ELSE \E failAt \in 0..Len(UpdateRoutesCalls(routeDbDelta)) :
            /\ rpcs' = Issued(UpdateRoutesCalls(routeDbDelta), failAt)
            /\ lastSkip' = "none"
            /\ IF failAt = 0
               THEN /\ client_' = TRUE
                    /\ dirtyRouteDb_' = FALSE
                    /\ UNCHANGED syncRoutesTimer_
               ELSE /\ client_' = FALSE
                    /\ dirtyRouteDb_' = TRUE
                    /\ syncRoutesTimer_' = syncRouteDbDebounced(syncRoutesTimer_)

(***************************************************************************)
(* Fib::syncRouteDb                                                        *)
(***************************************************************************)
SyncRouteDbCalls ==
    <<Rpc("syncFib", createUnicastRoutesWithBestNexthops(routeDb_.unicastRoutes))>>
    \o
    (IF SendMplsRoutes
     THEN <<Rpc("syncMplsFib", createMplsRoutesWithBestNextHops(routeDb_.mplsRoutes))>>
     ELSE <<>>)

\* syncRouteDb() returning success
syncRouteDb(success) ==
    IF dryrun_
    THEN /\ success = TRUE
         /\ rpcs' = <<>>
         /\ UNCHANGED <<dirtyRouteDb_, client_>>
    ELSE \E failAt \in 0..Len(SyncRouteDbCalls) :
         /\ success = (failAt = 0)
         /\ rpcs' = Issued(SyncRouteDbCalls, failAt)
         /\ dirtyRouteDb_' = (failAt # 0)
         /\ client_' = (failAt = 0)

(***************************************************************************)
(* Fib::processRouteDb                                                     *)
(***************************************************************************)
\* the routes of newRouteDb that should not be programmed
DoNotInstallRoutes(newRouteDb) ==
    Restrict(newRouteDb.unicastRoutes,
             { p \in DOMAIN newRouteDb.unicastRoutes :
                 newRouteDb.unicastRoutes[p].doNotInstall })

\* slip: the routes that should not be programmed are not erased
InstallableRouteDbKeepsAll(newRouteDb) == newRouteDb

\* newRouteDb once the routes that should not be programmed are erased
InstallableRouteDb(newRouteDb) ==
    [newRouteDb EXCEPT !.unicastRoutes =
        Restrict(newRouteDb.unicastRoutes,
                 { p \in DOMAIN newRouteDb.unicastRoutes :
                     ~newRouteDb.unicastRoutes[p].doNotInstall })]

\* slip: the new routes are merged into the old ones
NewRouteDbMerged(newRouteDb, oldRouteDb) ==
    LET newU == InstallableRouteDb(newRouteDb).unicastRoutes
        oldU == oldRouteDb.unicastRoutes
        newM == newRouteDb.mplsRoutes
        oldM == oldRouteDb.mplsRoutes
    IN  [thisNodeName |-> newRouteDb.thisNodeName,
         unicastRoutes |->
            [p \in (DOMAIN newU) \cup (DOMAIN oldU) |->
                IF p \in DOMAIN newU THEN newU[p] ELSE oldU[p]],
         mplsRoutes |->
            [l \in (DOMAIN newM) \cup (DOMAIN oldM) |->
                IF l \in DOMAIN newM THEN newM[l] ELSE oldM[l]]]

\* routeDb_ = std::move(newRouteDb)
NewRouteDb(newRouteDb, oldRouteDb) == InstallableRouteDb(newRouteDb)

\* doNotInstallRouteDb_ = std::move(doNotInstallRouteDb)
NewDoNotInstallRouteDb(newRouteDb, oldDoNotInstallRouteDb) ==
    [thisNodeName |-> "",
     unicastRoutes |-> DoNotInstallRoutes(newRouteDb),
     mplsRoutes |-> EmptyFunction]

processRouteDb(newRouteDb) ==
    /\ routeDb_' = NewRouteDb(newRouteDb, routeDb_)
    /\ doNotInstallRouteDb_' = NewDoNotInstallRouteDb(newRouteDb, doNotInstallRouteDb_)
    /\ updateRoutes(findDeltaRoutes(InstallableRouteDb(newRouteDb), routeDb_))
    /\ lastAffected' = {}
    /\ UNCHANGED <<interfaceStatusDb_, expBackoff_, latestAliveSince_>>

\* slip: the name of the publishing node is not looked at
FromUnknownNodeNever(thisNodeName) == FALSE

\* thisNodeName != myNodeName_: the publication is logged and dropped
FromUnknownNode(thisNodeName) == thisNodeName # MyNodeName

\* decisionSub_ callback
DecisionPublication(thriftRouteDb) ==
    /\ ~aborted
    /\ lastEvent' = IF FromUnknownNode(thriftRouteDb.thisNodeName)
                    THEN "decisionPublicationDropped"
                    ELSE "decisionPublication"
    /\ tick' = 1 - tick
    /\ coldStart' = coldStart
    /\ UNCHANGED <<config, healthChecker_, syncFibTimer_, aborted>>
    /\ IF FromUnknownNode(thriftRouteDb.thisNodeName)
       THEN /\ rpcs' = <<>>
            /\ lastDelta' = EmptyDelta
            /\ lastSkip' = "none"
            /\ lastAffected' = {}
            /\ UNCHANGED <<routeDb_, doNotInstallRouteDb_, interfaceStatusDb_,
                           dirtyRouteDb_, syncRoutesTimer_, expBackoff_,
                           latestAliveSince_, client_>>
       ELSE processRouteDb(thriftRouteDb)

(***************************************************************************)
(* Fib::processInterfaceDb                                                 *)
(***************************************************************************)
\* slip: an interface never seen before counts as up
wasUpByDefault(statusDb, ifName) ==
    IF ifName \in DOMAIN statusDb THEN statusDb[ifName] ELSE TRUE

\* folly::get_default(interfaceStatusDb_, ifName, false)
wasUp(statusDb, ifName) ==
    IF ifName \in DOMAIN statusDb THEN statusDb[ifName] ELSE FALSE

\* slip: every interface reported down is affected
AffectedInterfacesAnyDown(interfaceDb, statusDb) ==
    { ifName \in DOMAIN interfaceDb.interfaces : ~interfaceDb.interfaces[ifName] }

\* interfaces which were up before and are detected down
AffectedInterfaces(interfaceDb, statusDb) ==
    { ifName \in DOMAIN interfaceDb.interfaces :
        wasUp(statusDb, ifName) /\ ~interfaceDb.interfaces[ifName] }

NewInterfaceStatusDb(interfaceDb, statusDb) ==
    [ifName \in (DOMAIN statusDb) \cup (DOMAIN interfaceDb.interfaces) |->
        IF ifName \in DOMAIN interfaceDb.interfaces
        THEN interfaceDb.interfaces[ifName]
        ELSE statusDb[ifName]]

ValidNextHopsUnicast(nextHops, affectedInterfaces) ==
    { nextHop \in nextHops : nextHop.ifName \notin affectedInterfaces }

ValidNextHopsMpls(nextHops, affectedInterfaces) ==
    { nextHop \in nextHops :
        nextHop.ifName = NoIfName \/ nextHop.ifName \notin affectedInterfaces }

\* slip: the size of the valid best nexthops is not looked at
BestPathChangedNoSizeCheck(validBestNextHops, prevBestNextHops) ==
    validBestNextHops # prevBestNextHops

\* a route is updated iff its valid best nexthops are non-empty and differ
\* from its previous best nexthops
BestPathChanged(validBestNextHops, prevBestNextHops) ==
    validBestNextHops # {} /\ validBestNextHops # prevBestNextHops

\* a route is removed iff it has no valid nexthop
NoValidPaths(validNextHops) == validNextHops = {}

\* the unicast loop: routes with their valid nexthops, emptied routes erased
FilterUnicastRoutes(routes, affectedInterfaces) ==
    LET valid(p) == ValidNextHopsUnicast(routes[p].nextHops, affectedInterfaces)
    IN  [p \in { q \in DOMAIN routes : ~NoValidPaths(valid(q)) } |->
            [routes[p] EXCEPT !.nextHops = valid(p)]]

\* the MPLS loop
FilterMplsRoutes(routes, affectedInterfaces) ==
    LET valid(l) == ValidNextHopsMpls(routes[l].nextHops, affectedInterfaces)
    IN  [l \in { q \in DOMAIN routes : ~NoValidPaths(valid(q)) } |->
            [routes[l] EXCEPT !.nextHops = valid(l)]]

InterfaceDelta(routeDb, affectedInterfaces) ==
    LET u == routeDb.unicastRoutes
        m == routeDb.mplsRoutes
        validU(p) == ValidNextHopsUnicast(u[p].nextHops, affectedInterfaces)
        validM(l) == ValidNextHopsMpls(m[l].nextHops, affectedInterfaces)
    IN  [unicastRoutesToUpdate |->
            [p \in { q \in DOMAIN u :
                       BestPathChanged(getBestNextHopsUnicast(validU(q)),
                                       getBestNextHopsUnicast(u[q].nextHops)) } |->
                [nextHops |-> getBestNextHopsUnicast(validU(p))]],
         unicastRoutesToDelete |-> { p \in DOMAIN u : NoValidPaths(validU(p)) },
         mplsRoutesToUpdate |->
            [l \in { q \in DOMAIN m :
                       BestPathChanged(getBestNextHopsMpls(validM(q)),
                                       getBestNextHopsMpls(m[q].nextHops)) } |->
                [nextHops |-> getBestNextHopsMpls(validM(l))]],
         mplsRoutesToDelete |-> { l \in DOMAIN m : NoValidPaths(validM(l)) }]

\* CHECK(nextHop.address.ifName.hasValue()), for every nexthop of every
\* unicast route stored
IfNamesHaveValue(routes) ==
    \A p \in DOMAIN routes :
        \A nextHop \in routes[p].nextHops : nextHop.ifName # NoIfName

\* a failed CHECK aborts the process in the unicast loop, once the interface
\* statuses are recorded; nothing of the process is left to observe after it
processInterfaceDb(interfaceDb) ==
    LET affectedInterfaces == AffectedInterfaces(interfaceDb, interfaceStatusDb_)
    IN  /\ interfaceStatusDb_' = NewInterfaceStatusDb(interfaceDb, interfaceStatusDb_)
        /\ lastAffected' = affectedInterfaces
        /\ IF ~IfNamesHaveValue(routeDb_.unicastRoutes)
           THEN /\ aborted' = TRUE
                /\ lastSkip' = "none"
                /\ rpcs' = <<>>
                /\ lastDelta' = EmptyDelta
                /\ UNCHANGED <<routeDb_, dirtyRouteDb_, syncRoutesTimer_, client_>>
           ELSE /\ aborted' = FALSE
                /\ routeDb_' =
                      [routeDb_ EXCEPT
                         !.unicastRoutes = FilterUnicastRoutes(routeDb_.unicastRoutes, affectedInterfaces),
                         !.mplsRoutes = FilterMplsRoutes(routeDb_.mplsRoutes, affectedInterfaces)]
                /\ updateRoutes(InterfaceDelta(routeDb_, affectedInterfaces))
        /\ UNCHANGED <<doNotInstallRouteDb_, expBackoff_, latestAliveSince_>>

\* linkMonSub_ callback
LinkMonitorPublication(thriftInterfaceDb) ==
    /\ ~aborted
    /\ lastEvent' = IF FromUnknownNode(thriftInterfaceDb.thisNodeName)
                    THEN "linkMonitorPublicationDropped"
                    ELSE "linkMonitorPublication"
    /\ tick' = 1 - tick
    /\ coldStart' = coldStart
    /\ UNCHANGED <<config, healthChecker_, syncFibTimer_>>
    /\ IF FromUnknownNode(thriftInterfaceDb.thisNodeName)
       THEN /\ rpcs' = <<>>
            /\ lastDelta' = EmptyDelta
            /\ lastSkip' = "none"
            /\ lastAffected' = {}
            /\ UNCHANGED <<routeDb_, doNotInstallRouteDb_, interfaceStatusDb_,
                           dirtyRouteDb_, syncRoutesTimer_, expBackoff_,
                           latestAliveSince_, client_, aborted>>
       ELSE processInterfaceDb(thriftInterfaceDb)

(***************************************************************************)
(* Timers                                                                  *)
(***************************************************************************)
RECURSIVE Pow2(_)
Pow2(n) == IF n = 0 THEN 1 ELSE 2 * Pow2(n - 1)

\* bound of the model: the full sync fired by the sync timer may fail
MayFail == expBackoff_ < InitialBackoff * Pow2(MaxDoublings)

\* syncRoutesTimer_ callback; a one-shot timer is idle while its callback runs
SyncRoutesTimerFires ==
    /\ ~aborted
    /\ isScheduled(syncRoutesTimer_)
    /\ lastEvent' = "syncRoutesTimer"
    /\ lastSkip' = "none"
    /\ lastAffected' = {}
    /\ tick' = 1 - tick
    /\ coldStart' = FALSE
    /\ lastDelta' = EmptyDelta
    /\ \E success \in BOOLEAN :
         /\ syncRouteDb(success)
         /\ success \/ MayFail
         /\ IF success
            THEN /\ expBackoff_' = reportSuccess(expBackoff_)
                 /\ syncRoutesTimer_' = NotScheduled
            ELSE /\ expBackoff_' = reportError(expBackoff_)
                 /\ syncRoutesTimer_' =
                      scheduleTimeout(getTimeRemainingUntilRetry(reportError(expBackoff_)))
    /\ UNCHANGED <<config, routeDb_, doNotInstallRouteDb_, interfaceStatusDb_,
                   healthChecker_, syncFibTimer_, latestAliveSince_, aborted>>

\* syncFibTimer_ callback
SyncFibTimerFires ==
    /\ ~aborted
    /\ syncFibTimer_
    /\ lastEvent' = "syncFibTimer"
    /\ lastSkip' = "none"
    /\ lastAffected' = {}
    /\ tick' = 1 - tick
    /\ lastDelta' = EmptyDelta
    /\ IF ~isScheduled(syncRoutesTimer_)
       THEN \E success \in BOOLEAN : syncRouteDb(success)
       ELSE /\ rpcs' = <<>>
            /\ UNCHANGED <<dirtyRouteDb_, client_>>
    /\ UNCHANGED <<config, routeDb_, doNotInstallRouteDb_, interfaceStatusDb_,
                   syncRoutesTimer_, healthChecker_, syncFibTimer_, expBackoff_,
                   latestAliveSince_, coldStart, aborted>>

\* slip: the full sync is rescheduled at once even when one is pending
keepAliveCheckReschedules(aliveSince) ==
    /\ client_' = TRUE
    /\ IF aliveSince # latestAliveSince_
       THEN /\ dirtyRouteDb_' = TRUE
            /\ expBackoff_' = reportSuccess(expBackoff_)
            /\ syncRoutesTimer_' = scheduleTimeout(0)
       ELSE UNCHANGED <<dirtyRouteDb_, expBackoff_, syncRoutesTimer_>>
    /\ latestAliveSince_' = aliveSince

\* Fib::keepAliveCheck, sync_aliveSince() having returned aliveSince
keepAliveCheck(aliveSince) ==
    /\ client_' = TRUE
    /\ IF aliveSince # latestAliveSince_
       THEN /\ dirtyRouteDb_' = TRUE
            /\ expBackoff_' = reportSuccess(expBackoff_)
            /\ syncRoutesTimer_' = syncRouteDbDebounced(syncRoutesTimer_)
       ELSE UNCHANGED <<dirtyRouteDb_, expBackoff_, syncRoutesTimer_>>
    /\ latestAliveSince_' = aliveSince

\* healthChecker_ callback
HealthCheckerFires ==
    /\ ~aborted
    /\ healthChecker_
    /\ lastEvent' = "healthChecker"
    /\ lastSkip' = "none"
    /\ lastAffected' = {}
    /\ tick' = 1 - tick
    /\ lastDelta' = EmptyDelta
    /\ \/ \E aliveSince \in AliveEpochs :
            /\ rpcs' = <<Rpc("aliveSince", aliveSince)>>
            /\ keepAliveCheck(aliveSince)
       \/ /\ rpcs' = <<[Rpc("aliveSince", 0) EXCEPT !.ok = FALSE]>>
          /\ client_' = FALSE
          /\ UNCHANGED <<dirtyRouteDb_, expBackoff_, syncRoutesTimer_,
                         latestAliveSince_>>
    /\ UNCHANGED <<config, routeDb_, doNotInstallRouteDb_, interfaceStatusDb_,
                   healthChecker_, syncFibTimer_, coldStart, aborted>>

(***************************************************************************)
(* Specifications                                                          *)
(*                                                                         *)
(* Spec: every callback, over the small publications.                      *)
(* SpecRoutes: the publications of the local node and the two sync timers  *)
(* over the whole universe of routes and interfaces, with periodic sync    *)
(* and segment routing enabled.                                            *)
(* Both record the last accepted snapshot and the interfaces that went     *)
(* down since.                                                             *)
(***************************************************************************)
RecordSnapshot(thriftRouteDb) ==
    /\ lastPublisher' = thriftRouteDb.thisNodeName
    /\ lastInterfaces' = EmptyFunction
    /\ IF thriftRouteDb.thisNodeName # MyNodeName
       THEN UNCHANGED history
       ELSE /\ lastSnapshot' = thriftRouteDb
            /\ affectedSince' = {}
            /\ downSince' = {}

RecordInterfaces(thriftInterfaceDb) ==
    /\ lastPublisher' = thriftInterfaceDb.thisNodeName
    /\ lastInterfaces' = thriftInterfaceDb.interfaces
    /\ IF thriftInterfaceDb.thisNodeName # MyNodeName
       THEN UNCHANGED history
       ELSE /\ affectedSince' = affectedSince \cup
                  { ifName \in DOMAIN thriftInterfaceDb.interfaces :
                      /\ ifName \in DOMAIN interfaceStatusDb_
                      /\ interfaceStatusDb_[ifName]
                      /\ ~thriftInterfaceDb.interfaces[ifName] }
            /\ downSince' = downSince \cup
                  { ifName \in DOMAIN thriftInterfaceDb.interfaces :
                      ~thriftInterfaceDb.interfaces[ifName] }
            /\ UNCHANGED lastSnapshot

\* a timer callback receives no publication
RecordTimer ==
    /\ lastPublisher' = NoPublisher
    /\ lastInterfaces' = EmptyFunction
    /\ UNCHANGED history

Next ==
    \/ \E thriftRouteDb \in SmallRouteDatabases :
         DecisionPublication(thriftRouteDb) /\ RecordSnapshot(thriftRouteDb)
         /\ UNCHANGED <<storeVars, nlVars, perfVars, agentVars, envVars>>
    \/ \E thriftInterfaceDb \in SmallInterfaceDatabases :
         LinkMonitorPublication(thriftInterfaceDb) /\ RecordInterfaces(thriftInterfaceDb)
         /\ UNCHANGED <<storeVars, nlVars, perfVars, agentVars, envVars>>
    \/ SyncRoutesTimerFires /\ RecordTimer
         /\ UNCHANGED <<storeVars, nlVars, perfVars, agentVars, envVars>>
    \/ SyncFibTimerFires /\ RecordTimer
         /\ UNCHANGED <<storeVars, nlVars, perfVars, agentVars, envVars>>
    \/ HealthCheckerFires /\ RecordTimer
         /\ UNCHANGED <<storeVars, nlVars, perfVars, agentVars, envVars>>

Spec == Init /\ [][Next]_vars

InitRoutes ==
    /\ Init
    /\ enableFibSync_
    /\ enableSegmentRouting_

LocalRouteDatabases ==
    { db \in RouteDatabases : db.thisNodeName = MyNodeName }

LocalInterfaceDatabases ==
    { db \in InterfaceDatabases : db.thisNodeName = MyNodeName }

NextRoutes ==
    \/ \E thriftRouteDb \in LocalRouteDatabases :
         DecisionPublication(thriftRouteDb) /\ RecordSnapshot(thriftRouteDb)
         /\ UNCHANGED <<storeVars, nlVars, perfVars, agentVars, envVars>>
    \/ \E thriftInterfaceDb \in LocalInterfaceDatabases :
         LinkMonitorPublication(thriftInterfaceDb) /\ RecordInterfaces(thriftInterfaceDb)
         /\ UNCHANGED <<storeVars, nlVars, perfVars, agentVars, envVars>>
    \/ SyncRoutesTimerFires /\ RecordTimer
         /\ UNCHANGED <<storeVars, nlVars, perfVars, agentVars, envVars>>
    \/ SyncFibTimerFires /\ RecordTimer
         /\ UNCHANGED <<storeVars, nlVars, perfVars, agentVars, envVars>>

SpecRoutes == InitRoutes /\ [][NextRoutes]_vars

(***************************************************************************)
(* Properties                                                              *)
(***************************************************************************)
AcceptedPublications == {"decisionPublication", "linkMonitorPublication"}

SyncOps == {"syncFib", "syncMplsFib"}

ProgrammingIssued(issued) ==
    \E i \in DOMAIN issued : issued[i].op \in ProgrammingOps

\* some route-programming RPC of the last callback threw
FailedApply ==
    \E i \in DOMAIN rpcs : rpcs[i].op \in ProgrammingOps /\ ~rpcs[i].ok

\* the best-nexthop projection of the unicast routes of a route database
UnicastProjection(db) ==
    [p \in DOMAIN db.unicastRoutes |->
        { n \in db.unicastRoutes[p].nextHops :
            \A m \in db.unicastRoutes[p].nextHops : m.weight <= n.weight }]

\* issued is a full sync of db: syncFib with the projection of the whole db
\* comes first, and only sync RPCs follow
IsFullSyncOf(issued, db) ==
    /\ Len(issued) >= 1
    /\ issued[1].op = "syncFib"
    /\ issued[1].arg = UnicastProjection(db)
    /\ \A i \in DOMAIN issued : issued[i].op \in SyncOps

\* C1: in non-dryrun mode, a publication processed while the full-sync
\* timer is scheduled issues no RPC and leaves the timer and the dirty flag
\* as they are; while the timer is scheduled, the only callback that issues
\* route-programming RPCs is the timer's own firing, and what it issues is
\* the full sync of the whole route_db.
C1_PendingSyncSupersedesDelta ==
    [][ (~dryrun_ /\ isScheduled(syncRoutesTimer_)) =>
          /\ (lastEvent' \in AcceptedPublications =>
                /\ rpcs' = <<>>
                /\ syncRoutesTimer_' = syncRoutesTimer_
                /\ dirtyRouteDb_' = dirtyRouteDb_)
          /\ (ProgrammingIssued(rpcs') =>
                /\ lastEvent' = "syncRoutesTimer"
                /\ IsFullSyncOf(rpcs', routeDb_')) ]_vars

\* a publication with a non-empty delta was skipped while the sync timer,
\* rescheduled by a failed full sync, was pending
C1_Witness ==
    /\ ~dryrun_
    /\ lastEvent = "decisionPublication"
    /\ syncRoutesTimer_ = [scheduled |-> TRUE, delay |-> InitialBackoff]
    /\ DOMAIN lastDelta.unicastRoutesToUpdate # {}
    /\ rpcs = <<>>

\* C2: after any failed apply (delta, sync timer or periodic sync), dirty is
\* true and the full-sync timer is scheduled within the backoff maximum.
C2_FailedApplySchedulesSync ==
    FailedApply =>
        /\ dirtyRouteDb_
        /\ isScheduled(syncRoutesTimer_)
        /\ syncRoutesTimer_.delay <= MaxBackoff

\* the unicast routes of the last accepted snapshot without the marker
SnapshotInstallable ==
    { p \in DOMAIN lastSnapshot.unicastRoutes :
        ~lastSnapshot.unicastRoutes[p].doNotInstall }

\* the unicast routes of the last accepted snapshot with the marker
SnapshotDoNotInstall ==
    { p \in DOMAIN lastSnapshot.unicastRoutes :
        lastSnapshot.unicastRoutes[p].doNotInstall }

\* route_db is the last accepted snapshot minus its do_not_install routes
SnapshotCommitted ==
    /\ routeDb_.thisNodeName = lastSnapshot.thisNodeName
    /\ DOMAIN routeDb_.unicastRoutes = SnapshotInstallable
    /\ \A p \in SnapshotInstallable :
          routeDb_.unicastRoutes[p] = lastSnapshot.unicastRoutes[p]
    /\ routeDb_.mplsRoutes = lastSnapshot.mplsRoutes

\* C3: once a publication of the local node is processed, route_db is that
\* snapshot minus its do_not_install unicast routes, whatever it held
\* before, whatever dirty and the timers are and whether or not the delta
\* apply succeeded.
C3_SnapshotReplacesRouteDb ==
    lastEvent = "decisionPublication" => SnapshotCommitted

\* a snapshot with a do_not_install route was committed although its delta
\* apply failed
C3_Witness ==
    /\ lastEvent = "decisionPublication"
    /\ FailedApply
    /\ dirtyRouteDb_
    /\ SnapshotDoNotInstall # {}
    /\ DOMAIN routeDb_.mplsRoutes # {}

\* C4: route_db holds no route carrying the do_not_install marker, no such
\* route is passed to an add or sync RPC, and do_not_install_db holds
\* exactly the do_not_install routes of the last accepted snapshot.
C4_OnlyInstallableRoutes ==
    /\ \A p \in DOMAIN routeDb_.unicastRoutes :
          ~routeDb_.unicastRoutes[p].doNotInstall
    /\ \A i \in DOMAIN rpcs :
          rpcs[i].op \in {"addUnicastRoutes", "syncFib"} =>
              (DOMAIN rpcs[i].arg) \cap SnapshotDoNotInstall = {}
    /\ DOMAIN doNotInstallRouteDb_.unicastRoutes = SnapshotDoNotInstall
    /\ \A p \in SnapshotDoNotInstall :
          doNotInstallRouteDb_.unicastRoutes[p] = lastSnapshot.unicastRoutes[p]
    /\ DOMAIN doNotInstallRouteDb_.mplsRoutes = {}

\* a full sync was issued while a do_not_install route was held aside
C4_Witness ==
    /\ DOMAIN doNotInstallRouteDb_.unicastRoutes # {}
    /\ lastEvent = "syncRoutesTimer"
    /\ rpcs # <<>>
    /\ rpcs[1].op = "syncFib"

\* the health check returned aliveSince
HealthCheckReturned ==
    /\ lastEvent' = "healthChecker"
    /\ rpcs'[1].ok

\* a firing of the sync timer issues the full sync of route_db, and dirty
\* is false after it when no RPC threw
SyncTimerSyncsWholeRouteDb ==
    (~dryrun_ /\ lastEvent' = "syncRoutesTimer") =>
        /\ IsFullSyncOf(rpcs', routeDb_)
        /\ ((\A i \in DOMAIN rpcs' : rpcs'[i].ok) => ~dirtyRouteDb_')

\* C5 as stated: a health check that sees a new epoch sets dirty, resets the
\* backoff and schedules a full sync with zero delay; one that sees the same
\* epoch changes none of them; last_alive_since ends as the returned value.
C5_RestartSchedulesImmediateSync ==
    [][ /\ HealthCheckReturned =>
            /\ IF rpcs'[1].arg # latestAliveSince_
               THEN /\ dirtyRouteDb_'
                    /\ expBackoff_' = 0
                    /\ syncRoutesTimer_' = [scheduled |-> TRUE, delay |-> 0]
               ELSE UNCHANGED <<dirtyRouteDb_, expBackoff_, syncRoutesTimer_,
                                healthChecker_, syncFibTimer_>>
            /\ latestAliveSince_' = rpcs'[1].arg
        /\ SyncTimerSyncsWholeRouteDb ]_vars

\* C5 amended: the full sync is scheduled with zero delay when the sync timer
\* was idle, and the timer is left as it is when it was already scheduled.
C5_RestartSchedulesDebouncedSync ==
    [][ /\ HealthCheckReturned =>
            /\ IF rpcs'[1].arg # latestAliveSince_
               THEN /\ dirtyRouteDb_'
                    /\ expBackoff_' = 0
                    /\ syncRoutesTimer_' =
                         IF syncRoutesTimer_.scheduled
                         THEN syncRoutesTimer_
                         ELSE [scheduled |-> TRUE, delay |-> 0]
               ELSE UNCHANGED <<dirtyRouteDb_, expBackoff_, syncRoutesTimer_,
                                healthChecker_, syncFibTimer_>>
            /\ latestAliveSince_' = rpcs'[1].arg
        /\ SyncTimerSyncsWholeRouteDb ]_vars

\* a restart of the agent was detected after the cold start and the full
\* sync was scheduled at once
C5_Witness ==
    /\ lastEvent = "healthChecker"
    /\ rpcs[1].ok
    /\ latestAliveSince_ = 2
    /\ dirtyRouteDb_
    /\ ~coldStart
    /\ syncRoutesTimer_ = [scheduled |-> TRUE, delay |-> 0]
    /\ DOMAIN routeDb_.unicastRoutes # {}

\* the nexthops of a route that are not on one of the interfaces downed
Surviving(nextHops, downed) == { n \in nextHops : n.ifName \notin downed }

\* route_db is the last accepted snapshot once the nexthops on the
\* interfaces downed are removed: the routes left without nexthop are gone,
\* the others hold their surviving nexthops
RouteDbIsSnapshotWithout(downed) ==
    /\ DOMAIN routeDb_.unicastRoutes =
          { p \in SnapshotInstallable :
              Surviving(lastSnapshot.unicastRoutes[p].nextHops, downed) # {} }
    /\ \A p \in DOMAIN routeDb_.unicastRoutes :
          /\ routeDb_.unicastRoutes[p].nextHops =
                Surviving(lastSnapshot.unicastRoutes[p].nextHops, downed)
          /\ getBestNextHopsUnicast(routeDb_.unicastRoutes[p].nextHops)
                \subseteq Surviving(lastSnapshot.unicastRoutes[p].nextHops, downed)
    /\ DOMAIN routeDb_.mplsRoutes =
          { l \in DOMAIN lastSnapshot.mplsRoutes :
              Surviving(lastSnapshot.mplsRoutes[l].nextHops, downed) # {} }
    /\ \A l \in DOMAIN routeDb_.mplsRoutes :
          /\ routeDb_.mplsRoutes[l].nextHops =
                Surviving(lastSnapshot.mplsRoutes[l].nextHops, downed)
          /\ getBestNextHopsMpls(routeDb_.mplsRoutes[l].nextHops)
                \subseteq Surviving(lastSnapshot.mplsRoutes[l].nextHops, downed)

\* C6: in dryrun mode no RPC is issued and no client is created, the health
\* check and periodic sync timers are not armed, dirty stays false, every
\* full sync succeeds (the sync timer is scheduled only for the cold start
\* and the backoff stays 0), and route_db and do_not_install_db follow the
\* publications as they do in non-dryrun mode.
C6_DryrunBypassesAgent ==
    dryrun_ =>
        /\ rpcs = <<>>
        /\ ~client_
        /\ ~healthChecker_
        /\ ~syncFibTimer_
        /\ ~dirtyRouteDb_
        /\ expBackoff_ = 0
        /\ (isScheduled(syncRoutesTimer_) => coldStart)
        /\ RouteDbIsSnapshotWithout(affectedSince)
        /\ DOMAIN doNotInstallRouteDb_.unicastRoutes = SnapshotDoNotInstall

\* in dryrun mode, after the cold start, an interface went down and the
\* delta it produced was not programmed
C6_Witness ==
    /\ dryrun_
    /\ ~coldStart
    /\ lastEvent = "linkMonitorPublication"
    /\ affectedSince # {}
    /\ DOMAIN lastDelta.unicastRoutesToUpdate # {}

\* C7: until the cold-start timer fires no route-programming RPC is issued,
\* whatever callbacks run; a snapshot accepted in that window is committed
\* to route_db; and the firing of the cold-start timer issues the full sync
\* of the accumulated route_db, which is thus the first programming RPC.
C7_ColdStartDefersProgramming ==
    /\ [](coldStart =>
            /\ ~ProgrammingIssued(rpcs)
            /\ (lastEvent = "decisionPublication" => SnapshotCommitted))
    /\ [][ (coldStart /\ ~coldStart' /\ ~dryrun_) =>
              IsFullSyncOf(rpcs', routeDb_) ]_vars

\* a snapshot was accepted in the cold-start window after a health check
\* had seen a new epoch of the agent
C7_Witness ==
    /\ coldStart
    /\ ~dryrun_
    /\ lastEvent = "decisionPublication"
    /\ dirtyRouteDb_
    /\ DOMAIN routeDb_.unicastRoutes # {}
    /\ DOMAIN lastDelta.unicastRoutesToUpdate # {}

\* C8: the periodic sync timer is armed only in non-dryrun mode with fib
\* sync enabled; when it fires while the full-sync timer is scheduled
\* nothing is done, otherwise the full sync of route_db is issued within
\* the same callback.
C8_PeriodicSync ==
    /\ [](syncFibTimer_ => (~dryrun_ /\ enableFibSync_))
    /\ [][ lastEvent' = "syncFibTimer" =>
              IF syncRoutesTimer_.scheduled
              THEN /\ rpcs' = <<>>
                   /\ UNCHANGED <<routeDb_, doNotInstallRouteDb_,
                                  interfaceStatusDb_, dirtyRouteDb_,
                                  syncRoutesTimer_, expBackoff_,
                                  latestAliveSince_, client_>>
              ELSE IsFullSyncOf(rpcs', routeDb_) ]_vars

\* the periodic timer fired with no full sync pending and synced a
\* non-empty route_db
C8_Witness ==
    /\ lastEvent = "syncFibTimer"
    /\ rpcs # <<>>
    /\ ~FailedApply
    /\ DOMAIN routeDb_.unicastRoutes # {}

\* C9 as stated: route_db is the snapshot without the nexthops on the
\* interfaces reported down since, whether or not they had been reported up
\* before.
C9_DownEventsFilterRoutes == RouteDbIsSnapshotWithout(downSince)

\* C9 amended: route_db is the snapshot without the nexthops on the
\* interfaces that were recorded up when they were reported down.
C9_UpToDownEventsFilterRoutes == RouteDbIsSnapshotWithout(affectedSince)

\* eth0 went from up to down and eth1 was reported down without having been
\* up: the route keeps its nexthop on eth1 only
C9_Witness ==
    /\ affectedSince = {"eth0"}
    /\ "eth1" \in downSince
    /\ \E p \in DOMAIN routeDb_.unicastRoutes :
          /\ lastSnapshot.unicastRoutes[p].nextHops = UnicastNextHops
          /\ routeDb_.unicastRoutes[p].nextHops =
                { n \in UnicastNextHops : n.ifName = "eth1" }

\* the interfaces that the publication just processed took from up to down
WentDown ==
    { i \in DOMAIN interfaceStatusDb_ :
        interfaceStatusDb_[i] /\ ~interfaceStatusDb_'[i] }

\* C10: for every stored route processed by an interface update, the delta
\* updates it, with its new best nexthops, iff these are non-empty and
\* differ from the previous best nexthops; the delta deletes it iff no
\* nexthop is left, and the route is then gone from route_db; no route is
\* both updated and deleted.
C10_InterfaceDelta ==
    [][ lastEvent' = "linkMonitorPublication" =>
          /\ \A p \in DOMAIN routeDb_.unicastRoutes :
                LET before == routeDb_.unicastRoutes[p].nextHops
                    after == Surviving(before, WentDown)
                    updated == p \in DOMAIN lastDelta'.unicastRoutesToUpdate
                    deleted == p \in lastDelta'.unicastRoutesToDelete
                IN  /\ updated <=>
                          /\ getBestNextHopsUnicast(after) # {}
                          /\ getBestNextHopsUnicast(after) # getBestNextHopsUnicast(before)
                    /\ updated =>
                          lastDelta'.unicastRoutesToUpdate[p].nextHops
                             = getBestNextHopsUnicast(after)
                    /\ deleted <=> after = {}
                    /\ deleted => p \notin DOMAIN routeDb_'.unicastRoutes
                    /\ ~(updated /\ deleted)
          /\ \A l \in DOMAIN routeDb_.mplsRoutes :
                LET before == routeDb_.mplsRoutes[l].nextHops
                    after == Surviving(before, WentDown)
                    updated == l \in DOMAIN lastDelta'.mplsRoutesToUpdate
                    deleted == l \in lastDelta'.mplsRoutesToDelete
                IN  /\ updated <=>
                          /\ getBestNextHopsMpls(after) # {}
                          /\ getBestNextHopsMpls(after) # getBestNextHopsMpls(before)
                    /\ updated =>
                          lastDelta'.mplsRoutesToUpdate[l].nextHops
                             = getBestNextHopsMpls(after)
                    /\ deleted <=> after = {}
                    /\ deleted => l \notin DOMAIN routeDb_'.mplsRoutes
                    /\ ~(updated /\ deleted)
          /\ DOMAIN lastDelta'.unicastRoutesToUpdate \subseteq DOMAIN routeDb_.unicastRoutes
          /\ lastDelta'.unicastRoutesToDelete \subseteq DOMAIN routeDb_.unicastRoutes
          /\ DOMAIN lastDelta'.mplsRoutesToUpdate \subseteq DOMAIN routeDb_.mplsRoutes
          /\ lastDelta'.mplsRoutesToDelete \subseteq DOMAIN routeDb_.mplsRoutes ]_vars

\* an interface update changed the best nexthops of a unicast route and
\* removed the last nexthop of an MPLS route
C10_Witness ==
    /\ lastEvent = "linkMonitorPublication"
    /\ DOMAIN lastDelta.unicastRoutesToUpdate # {}
    /\ lastDelta.mplsRoutesToDelete # {}
    /\ DOMAIN routeDb_.mplsRoutes = {}

\* C11: a callback that receives a RouteDatabase or an InterfaceDatabase
\* whose this_node_name is not the local node name issues no RPC and leaves
\* route_db, do_not_install_db, the interface statuses, dirty, the backoff
\* and the three timers as they are.
C11_UnknownNodeDropped ==
    [][ lastPublisher' \notin {NoPublisher, MyNodeName} =>
          /\ rpcs' = <<>>
          /\ UNCHANGED <<routeDb_, doNotInstallRouteDb_, interfaceStatusDb_,
                         dirtyRouteDb_, expBackoff_, syncRoutesTimer_,
                         healthChecker_, syncFibTimer_>> ]_vars

\* a publication of another node was received after the cold start, with
\* routes stored, eth0 recorded up and no full sync pending: had it been
\* processed, RPCs would have been issued or the stored state changed
C11_Witness ==
    /\ lastPublisher = OtherNodeName
    /\ ~dryrun_
    /\ ~coldStart
    /\ ~dirtyRouteDb_
    /\ ~isScheduled(syncRoutesTimer_)
    /\ DOMAIN routeDb_.unicastRoutes # {}
    /\ "eth0" \in DOMAIN interfaceStatusDb_
    /\ interfaceStatusDb_["eth0"]

(***************************************************************************)
(* SpecUnchecked: the publications of the local node over every            *)
(* RouteDatabase the thrift type admits: the nexthops of a unicast route   *)
(* may be none, and a nexthop may carry no interface name. No MPLS route   *)
(* is published.                                                           *)
(***************************************************************************)
ThriftUnicastNextHops ==
    UnicastNextHops \cup { [ifName |-> NoIfName, weight |-> 2] }

ThriftRouteDatabases ==
    [thisNodeName : {MyNodeName},
     unicastRoutes :
        PartialFunctions(Prefixes,
            [nextHops : SUBSET ThriftUnicastNextHops, doNotInstall : BOOLEAN]),
     mplsRoutes : {EmptyFunction}]

InitUnchecked ==
    /\ Init
    /\ ~enableFibSync_
    /\ enableSegmentRouting_

NextUnchecked ==
    \/ \E thriftRouteDb \in ThriftRouteDatabases :
         DecisionPublication(thriftRouteDb) /\ RecordSnapshot(thriftRouteDb)
         /\ UNCHANGED <<storeVars, nlVars, perfVars, agentVars, envVars>>
    \/ \E thriftInterfaceDb \in LocalInterfaceDatabases :
         LinkMonitorPublication(thriftInterfaceDb) /\ RecordInterfaces(thriftInterfaceDb)
         /\ UNCHANGED <<storeVars, nlVars, perfVars, agentVars, envVars>>
    \/ SyncRoutesTimerFires /\ RecordTimer
         /\ UNCHANGED <<storeVars, nlVars, perfVars, agentVars, envVars>>

SpecUnchecked == InitUnchecked /\ [][NextUnchecked]_vars

\* C12: whatever routes the accepted snapshots contain, the processing of an
\* InterfaceDatabase completes: no CHECK fails, every nexthop of every
\* unicast route stored carrying an interface name.
C12_InterfaceDbProcessingCompletes ==
    /\ ~aborted
    /\ IfNamesHaveValue(routeDb_.unicastRoutes)

MplsOps == {"deleteMplsRoutes", "addMplsRoutes", "syncMplsFib"}

\* the last callback made a full sync in which no RPC threw
SuccessfulFullSync ==
    /\ rpcs # <<>>
    /\ rpcs[1].op = "syncFib"
    /\ \A i \in DOMAIN rpcs : rpcs[i].ok

\* the best-nexthop projection of the MPLS routes of a route database
MplsProjection(db) ==
    [l \in DOMAIN db.mplsRoutes |->
        { n \in db.mplsRoutes[l].nextHops :
            \A m \in db.mplsRoutes[l].nextHops : m.weight <= n.weight }]

\* C13: with enable_segment_routing false no deleteMplsRoutes, addMplsRoutes
\* or syncMplsFib RPC is issued by any callback, while the MPLS routes of an
\* accepted snapshot are kept in route_db; with enable_segment_routing true
\* every successful full sync is syncFib followed by syncMplsFib of the MPLS
\* routes of route_db.
C13_SegmentRoutingGatesMpls ==
    /\ ~enableSegmentRouting_ =>
          /\ \A i \in DOMAIN rpcs : rpcs[i].op \notin MplsOps
          /\ (lastEvent = "decisionPublication" =>
                routeDb_.mplsRoutes = lastSnapshot.mplsRoutes)
    /\ (enableSegmentRouting_ /\ SuccessfulFullSync) =>
          /\ Len(rpcs) = 2
          /\ rpcs[2].op = "syncMplsFib"
          /\ rpcs[2].arg = MplsProjection(routeDb_)

\* with segment routing disabled, a snapshot that brought a new MPLS route
\* was applied: the unicast RPC was made and the MPLS route is stored
C13_Witness ==
    /\ ~enableSegmentRouting_
    /\ lastEvent = "decisionPublication"
    /\ DOMAIN lastDelta.mplsRoutesToUpdate # {}
    /\ rpcs # <<>>
    /\ \A i \in DOMAIN rpcs : rpcs[i].ok
    /\ DOMAIN routeDb_.mplsRoutes # {}

(***************************************************************************)
(* SpecDelta: non-dryrun mode, the publications of the local node over two *)
(* prefixes and two labels, so that one delta both deletes and adds.       *)
(***************************************************************************)
DeltaPrefixes == {"10.0.0.0/24", "10.0.1.0/24"}
DeltaLabels == {100, 200}

DeltaRouteDatabases ==
    [thisNodeName : {MyNodeName},
     unicastRoutes :
        PartialFunctions(DeltaPrefixes,
            [nextHops : {UnicastNextHops}, doNotInstall : {FALSE}]),
     mplsRoutes :
        PartialFunctions(DeltaLabels, [nextHops : {MplsNextHops}])]

InitDelta ==
    /\ Init
    /\ ~dryrun_
    /\ ~enableFibSync_

NextDelta ==
    \/ \E thriftRouteDb \in DeltaRouteDatabases :
         DecisionPublication(thriftRouteDb) /\ RecordSnapshot(thriftRouteDb)
         /\ UNCHANGED <<storeVars, nlVars, perfVars, agentVars, envVars>>
    \/ \E thriftInterfaceDb \in SmallInterfaceDatabases :
         LinkMonitorPublication(thriftInterfaceDb) /\ RecordInterfaces(thriftInterfaceDb)
         /\ UNCHANGED <<storeVars, nlVars, perfVars, agentVars, envVars>>
    \/ SyncRoutesTimerFires /\ RecordTimer
         /\ UNCHANGED <<storeVars, nlVars, perfVars, agentVars, envVars>>

SpecDelta == InitDelta /\ [][NextDelta]_vars

\* the RPCs of a delta apply, in the order the agent must see them, with
\* the list each one carries
DeltaOrder ==
    << [op |-> "deleteUnicastRoutes", mpls |-> FALSE,
        list |-> lastDelta.unicastRoutesToDelete],
       [op |-> "addUnicastRoutes", mpls |-> FALSE,
        list |-> DOMAIN lastDelta.unicastRoutesToUpdate],
       [op |-> "deleteMplsRoutes", mpls |-> TRUE,
        list |-> lastDelta.mplsRoutesToDelete],
       [op |-> "addMplsRoutes", mpls |-> TRUE,
        list |-> DOMAIN lastDelta.mplsRoutesToUpdate] >>

\* the position in DeltaOrder of the i-th RPC issued
Rank(i) == CHOOSE k \in DOMAIN DeltaOrder : DeltaOrder[k].op = rpcs[i].op

\* the k-th RPC of DeltaOrder is due: its list is not empty
Due(k) ==
    /\ DeltaOrder[k].list # {}
    /\ (DeltaOrder[k].mpls => enableSegmentRouting_)

\* the routes the i-th RPC issued carries
Carried(i) ==
    IF rpcs[i].op \in {"deleteUnicastRoutes", "deleteMplsRoutes"}
    THEN rpcs[i].arg
    ELSE DOMAIN rpcs[i].arg

\* C14: the RPCs issued while a publication is processed are delta RPCs in
\* the order deleteUnicastRoutes, addUnicastRoutes, deleteMplsRoutes,
\* addMplsRoutes; each one issued carries its non-empty list of the delta;
\* every due RPC ordered before one that was issued was issued too, and all
\* the due RPCs were issued when none threw.
C14_DeltaRpcOrder ==
    lastEvent \in AcceptedPublications =>
        /\ \A i \in DOMAIN rpcs : rpcs[i].op \in DeltaOps
        /\ \A i, j \in DOMAIN rpcs : i < j => Rank(i) < Rank(j)
        /\ \A i \in DOMAIN rpcs :
              /\ Due(Rank(i))
              /\ Carried(i) = DeltaOrder[Rank(i)].list
              /\ \A k \in 1..(Rank(i) - 1) :
                    Due(k) => \E j \in 1..(i - 1) : Rank(j) = k
        /\ (rpcs # <<>> /\ \A i \in DOMAIN rpcs : rpcs[i].ok) =>
              \A k \in DOMAIN DeltaOrder :
                  Due(k) => \E i \in DOMAIN rpcs : Rank(i) = k

\* one delta deleted and added unicast routes and deleted and added MPLS
\* routes: the four RPCs were issued and none threw
C14_Witness ==
    /\ lastEvent = "decisionPublication"
    /\ Len(rpcs) = 4
    /\ \A i \in DOMAIN rpcs : rpcs[i].ok
    /\ lastDelta.unicastRoutesToDelete # {}
    /\ DOMAIN lastDelta.unicastRoutesToUpdate # {}

(***************************************************************************)
(* PersistentStore                                                         *)
(***************************************************************************)
StoreKeys == {"k1", "k2"}
StoreValues == {"a", "b"}

\* thrift::StoreDatabase::keyVals
StoreDatabases == PartialFunctions(StoreKeys, StoreValues)

\* serializer_.serialize: the database on the wire is its list of entries
Serialize(database) == { <<key, database[key]>> : key \in DOMAIN database }

\* serializer_.deserialize: the entries read are put in a database
Deserialize(pairs) ==
    [key \in { p[1] : p \in pairs } |-> (CHOOSE p \in pairs : p[1] = key)[2]]

\* the file folly::writeFileAtomic leaves at the storage path
WrittenFile(database) ==
    [exists |-> TRUE, readable |-> TRUE, complete |-> TRUE,
     pairs |-> Serialize(database)]

\* what the storage path may hold when a store is first constructed: no
\* file, a file written by a store, a file that cannot be read, or a file
\* whose content stops short, after the entries in pairs
StorageFiles ==
    {NoFile}
    \cup { WrittenFile(database) : database \in StoreDatabases }
    \cup { [WrittenFile(database) EXCEPT !.readable = FALSE] :
             database \in StoreDatabases }
    \cup { [WrittenFile(database) EXCEPT !.complete = FALSE] :
             database \in StoreDatabases }

\* (saveInitialBackoff, saveMaxBackoff) of the constructor, in ms
SaveBackoffs == { [initial |-> 0, max |-> 0], [initial |-> 1, max |-> 2] }

\* the timer and the backoff are created only if a backoff is requested
NewSaveDbTimerBackoff(saveBackoff) ==
    [configured |-> (saveBackoff.initial # 0 \/ saveBackoff.max # 0),
     initial |-> saveBackoff.initial, max |-> saveBackoff.max, current |-> 0]

\* ExponentialBackoff::reportSuccess, reportError on saveDbTimerBackoff_
SaveReportSuccess(backoff) == [backoff EXCEPT !.current = 0]

SaveReportError(backoff) ==
    [backoff EXCEPT !.current =
        IF backoff.current = 0
        THEN backoff.initial
        ELSE Min(2 * backoff.current, backoff.max)]

\* slip: the file is decoded straight into the database
LoadedDatabasePartial(file, database) ==
    IF ~file.exists \/ ~file.readable
    THEN database
    ELSE Deserialize(file.pairs)

\* PersistentStore::loadDatabaseFromDisk: the database after it has run. The
\* file is decoded into a new database, which replaces the database only
\* when the whole file decoded
LoadedDatabase(file, database) ==
    IF ~file.exists \/ ~file.readable \/ ~file.complete
    THEN database
    ELSE Deserialize(file.pairs)

\* the file can be read and decoded whole
Decodable(file) == file.exists /\ file.readable /\ file.complete

\* the file, decoded, is the database
DecodesTo(file, database) ==
    /\ Decodable(file)
    /\ { p[1] : p \in file.pairs } = DOMAIN database
    /\ \A p \in file.pairs : database[p[1]] = p[2]

\* slip: the file is written in place, an error leaving it cut short
FileAfterSaveInPlace(file, database, dryrun, ok) ==
    IF dryrun
    THEN file
    ELSE IF ok
    THEN WrittenFile(database)
    ELSE [WrittenFile(database) EXCEPT !.complete = FALSE, !.pairs = {}]

\* PersistentStore::saveDatabaseToDisk: the file after it has run; ok is
\* FALSE when folly::writeFileAtomic throws, the file being then as before
FileAfterSave(file, database, dryrun, ok) ==
    IF dryrun
    THEN file
    ELSE IF ok THEN WrittenFile(database) ELSE file

\* PersistentStore::saveDatabaseToDisk: its result; nothing throws in dryrun
SaveSucceeds(dryrun, ok) == dryrun \/ ok
\* thrift::StoreRequest as received; decodable is FALSE when readThriftObj
\* fails
StoreRequests ==
    [requestType : {"STORE", "LOAD", "ERASE", "UNKNOWN"},
     key : StoreKeys, data : StoreValues, decodable : {TRUE}]
    \cup
    [requestType : {"STORE"}, key : {"k1"}, data : {"a"}, decodable : {FALSE}]

\* database_ after the switch on requestType
DatabaseAfter(request, database) ==
    IF request.requestType = "STORE"
    THEN [key \in (DOMAIN database) \cup {request.key} |->
            IF key = request.key THEN request.data ELSE database[key]]
    ELSE IF request.requestType = "ERASE"
    THEN Restrict(database, (DOMAIN database) \ {request.key})
    ELSE database

\* the StoreResponse of a decoded request
ResponseTo(request, database) ==
    [requestType |-> request.requestType,
     key |-> request.key,
     success |->
        IF request.requestType = "STORE" THEN TRUE
        ELSE IF request.requestType \in {"LOAD", "ERASE"}
        THEN request.key \in DOMAIN database
        ELSE FALSE,
     data |->
        IF request.requestType = "LOAD" /\ request.key \in DOMAIN database
        THEN database[request.key]
        ELSE ""]

\* slip: every decoded request that is not a LOAD schedules a save
SaveWantedWithoutSuccess(request, database) ==
    request.requestType # "LOAD"

\* the database is saved after a successful request other than LOAD
SaveWanted(request, database) ==
    /\ ResponseTo(request, database).success
    /\ request.requestType # "LOAD"

\* the save timer is scheduled if it is not already
SaveTimerArmed(timer, backoff) ==
    IF ~isScheduled(timer) THEN scheduleTimeout(backoff.current) ELSE timer

\* PersistentStore::processRequestMsg
processRequestMsg(request) ==
    /\ storeRunning
    /\ storeEvent' = "request"
    /\ storeTick' = 1 - storeTick
    /\ UNCHANGED <<storeDryrun_, saveDbTimerBackoff_, storeRunning, shutdown>>
    /\ IF ~request.decodable
       THEN /\ response' = [requestType |-> "UNDECODABLE", key |-> "",
                            success |-> FALSE, data |-> ""]
            /\ wroteToDisk' = FALSE
            /\ saveFailed' = FALSE
            /\ UNCHANGED <<database_, saveDbTimer_, storageFile, acknowledged>>
       ELSE /\ database_' = DatabaseAfter(request, database_)
            /\ response' = ResponseTo(request, database_)
            /\ acknowledged' = (acknowledged \/ SaveWanted(request, database_))
            /\ IF ~SaveWanted(request, database_)
               THEN /\ wroteToDisk' = FALSE
                    /\ saveFailed' = FALSE
                    /\ UNCHANGED <<saveDbTimer_, storageFile>>
               ELSE IF ~saveDbTimerBackoff_.configured
               THEN \E ok \in BOOLEAN :
                      /\ storageFile' =
                           FileAfterSave(storageFile, database_', storeDryrun_, ok)
                      /\ wroteToDisk' = (~storeDryrun_ /\ ok)
                      /\ saveFailed' = ~SaveSucceeds(storeDryrun_, ok)
                      /\ UNCHANGED saveDbTimer_
               ELSE /\ saveDbTimer_' = SaveTimerArmed(saveDbTimer_, saveDbTimerBackoff_)
                    /\ wroteToDisk' = FALSE
                    /\ saveFailed' = FALSE
                    /\ UNCHANGED storageFile

\* saveDbTimer_ callback; a one-shot timer is idle while its callback runs
SaveDbTimerFires ==
    /\ storeRunning
    /\ saveDbTimerBackoff_.configured
    /\ isScheduled(saveDbTimer_)
    /\ storeEvent' = "saveDbTimer"
    /\ storeTick' = 1 - storeTick
    /\ response' = NoResponse
    /\ \E ok \in BOOLEAN :
         /\ storageFile' = FileAfterSave(storageFile, database_, storeDryrun_, ok)
         /\ wroteToDisk' = (~storeDryrun_ /\ ok)
         /\ saveFailed' = ~SaveSucceeds(storeDryrun_, ok)
         /\ IF SaveSucceeds(storeDryrun_, ok)
            THEN /\ saveDbTimerBackoff_' = SaveReportSuccess(saveDbTimerBackoff_)
                 /\ saveDbTimer_' = NotScheduled
            ELSE /\ saveDbTimerBackoff_' = SaveReportError(saveDbTimerBackoff_)
                 /\ saveDbTimer_' =
                      scheduleTimeout(SaveReportError(saveDbTimerBackoff_).current)
    /\ UNCHANGED <<storeDryrun_, database_, storeRunning, acknowledged, shutdown>>

\* slip: the destructor saves only what the save timer had not yet saved
FinalSaveIfPending(file, database, dryrun, ok, timer) ==
    IF isScheduled(timer) THEN FileAfterSave(file, database, dryrun, ok) ELSE file

\* the save of the destructor, whatever the save timer
FinalSave(file, database, dryrun, ok, timer) ==
    FileAfterSave(file, database, dryrun, ok)

\* PersistentStore::~PersistentStore: one save, then the members are gone;
\* database_ keeps what the store held, for the comparison with its successor
DestroyStore ==
    /\ storeRunning
    /\ storeEvent' = "destroyed"
    /\ storeTick' = 1 - storeTick
    /\ response' = NoResponse
    /\ storeRunning' = FALSE
    /\ saveDbTimer_' = NotScheduled
    /\ \E ok \in BOOLEAN :
         /\ storageFile' =
              FinalSave(storageFile, database_, storeDryrun_, ok, saveDbTimer_)
         /\ wroteToDisk' = (~storeDryrun_ /\ ok)
         /\ saveFailed' = ~SaveSucceeds(storeDryrun_, ok)
         /\ shutdown' =
              IF storeDryrun_ \/ ~ok THEN "notSaved"
              ELSE IF acknowledged /\ ~DecodesTo(storageFile, database_)
              THEN "savedPending"
              ELSE "saved"
    /\ UNCHANGED <<storeDryrun_, saveDbTimerBackoff_, database_, acknowledged>>

\* PersistentStore::PersistentStore, on the file its predecessor left
ConstructStore(dryrun, saveBackoff) ==
    /\ ~storeRunning
    /\ storeEvent' = "reconstructed"
    /\ storeTick' = 1 - storeTick
    /\ response' = NoResponse
    /\ storeRunning' = TRUE
    /\ storeDryrun_' = dryrun
    /\ saveDbTimerBackoff_' = NewSaveDbTimerBackoff(saveBackoff)
    /\ saveDbTimer_' = NotScheduled
    /\ database_' = LoadedDatabase(storageFile, EmptyFunction)
    /\ wroteToDisk' = FALSE
    /\ saveFailed' = FALSE
    /\ acknowledged' = FALSE
    /\ UNCHANGED <<storageFile, shutdown>>

\* no Fib is constructed
NoFib ==
    /\ dryrun_ = FALSE
    /\ enableFibSync_ = FALSE
    /\ enableSegmentRouting_ = FALSE
    /\ routeDb_ = EmptyRouteDb(MyNodeName)
    /\ doNotInstallRouteDb_ = EmptyRouteDb("")
    /\ interfaceStatusDb_ = EmptyFunction
    /\ dirtyRouteDb_ = FALSE
    /\ syncRoutesTimer_ = NotScheduled
    /\ healthChecker_ = FALSE
    /\ syncFibTimer_ = FALSE
    /\ expBackoff_ = 0
    /\ latestAliveSince_ = 0
    /\ client_ = FALSE
    /\ rpcs = <<>>
    /\ lastEvent = "none"
    /\ tick = 0
    /\ lastDelta = EmptyDelta
    /\ lastSnapshot = EmptyRouteDb(MyNodeName)
    /\ coldStart = FALSE
    /\ affectedSince = {}
    /\ downSince = {}
    /\ lastPublisher = NoPublisher
    /\ aborted = FALSE
    /\ lastSkip = "none"
    /\ lastAffected = {}
    /\ lastInterfaces = EmptyFunction

\* the store right after its construction on any file
InitStore ==
    /\ NoFib
    /\ NoNetlink
    /\ NoPerf
    /\ NoAgent
    /\ NoQuiet
    /\ storeDryrun_ \in BOOLEAN
    /\ \E saveBackoff \in SaveBackoffs :
         saveDbTimerBackoff_ = NewSaveDbTimerBackoff(saveBackoff)
    /\ saveDbTimer_ = NotScheduled
    /\ storageFile \in StorageFiles
    /\ database_ = LoadedDatabase(storageFile, EmptyFunction)
    /\ storeRunning = TRUE
    /\ response = NoResponse
    /\ storeEvent = "constructed"
    /\ wroteToDisk = FALSE
    /\ saveFailed = FALSE
    /\ storeTick = 0
    /\ acknowledged = FALSE
    /\ shutdown = "none"

NextStore ==
    \/ \E request \in StoreRequests :
         processRequestMsg(request) /\ UNCHANGED <<vars, nlVars, perfVars, agentVars, envVars>>
    \/ SaveDbTimerFires /\ UNCHANGED <<vars, nlVars, perfVars, agentVars, envVars>>
    \/ DestroyStore /\ UNCHANGED <<vars, nlVars, perfVars, agentVars, envVars>>
    \/ \E dryrun \in BOOLEAN, saveBackoff \in SaveBackoffs :
         ConstructStore(dryrun, saveBackoff) /\ UNCHANGED <<vars, nlVars, perfVars, agentVars, envVars>>

SpecStore == InitStore /\ [][NextStore]_storeVars

\* the request just answered changed the database: a STORE, or an ERASE of
\* a key that was present
Mutation ==
    \/ response'.requestType = "STORE"
    \/ /\ response'.requestType = "ERASE"
       /\ response'.key \in DOMAIN database_

SaveDbTimerSaves ==
    /\ SaveDbTimerFires
    /\ ~isScheduled(saveDbTimer_')
    /\ UNCHANGED <<vars, nlVars, perfVars, agentVars, envVars>>

\* SpecStoreFair: a scheduled save timer fires, and a write succeeds in the
\* end
SpecStoreFair == SpecStore /\ WF_storeVars(SaveDbTimerSaves)

\* a running store, not in dryrun, that has a save timer
DebouncedStore ==
    storeRunning /\ ~storeDryrun_ /\ saveDbTimerBackoff_.configured

\* C16: not in dryrun, whenever the file changes it becomes the whole
\* encoding of the database held at that moment; with the save timer
\* configured, once a mutation was acknowledged and no save is pending the
\* file decodes to the database; and a pending save leads to a file that
\* decodes to the database, as long as the store runs.
C16_DiskFollowsMemory ==
    /\ [][ storageFile' # storageFile => DecodesTo(storageFile', database_') ]_storeVars
    /\ []((DebouncedStore /\ acknowledged /\ ~isScheduled(saveDbTimer_)) =>
            DecodesTo(storageFile, database_))
    /\ ((DebouncedStore /\ isScheduled(saveDbTimer_)) ~>
            (DecodesTo(storageFile, database_) \/ ~storeRunning))

\* after a save that failed, the save timer fired again and wrote the
\* database, which is not the one the file held
C16_Witness ==
    /\ DebouncedStore
    /\ storeEvent = "saveDbTimer"
    /\ wroteToDisk
    /\ acknowledged
    /\ ~isScheduled(saveDbTimer_)
    /\ DOMAIN database_ = StoreKeys
    /\ DecodesTo(storageFile, database_)

\* C17: a store constructed on a storage path that holds no file, a file
\* that cannot be read or a file that cannot be decoded whole is running
\* with an empty database, and the database stays empty until a mutation is
\* acknowledged; a LOAD succeeds iff its key is in the database, and then
\* returns the value stored, so every LOAD fails on the empty database; a
\* key enters the database only by a STORE.
C17_LoadFailureStartsEmpty ==
    /\ [](storeEvent \in {"constructed", "reconstructed"} => storeRunning)
    /\ []((storeRunning /\ ~acknowledged /\ ~Decodable(storageFile)) =>
            database_ = EmptyFunction)
    /\ [][ /\ (storeEvent' = "request" /\ response'.requestType = "LOAD") =>
                 /\ response'.success = (response'.key \in DOMAIN database_)
                 /\ (response'.success =>
                        response'.data = database_[response'.key])
           /\ ~(DOMAIN database_' \subseteq DOMAIN database_) =>
                 \/ response'.requestType = "STORE"
                 \/ storeEvent' = "reconstructed" ]_storeVars

\* a store constructed on a file whose content stops short after one entry
\* failed a LOAD
C17_Witness ==
    /\ storeEvent = "request"
    /\ response.requestType = "LOAD"
    /\ ~response.success
    /\ ~acknowledged
    /\ storageFile.exists
    /\ storageFile.readable
    /\ ~storageFile.complete
    /\ response.key \in { p[1] : p \in storageFile.pairs }

\* C18: whenever a save of the database fails in a running store after an
\* acknowledged mutation, a retry is pending: the save timer is scheduled,
\* with the current backoff as delay, whether or not a backoff is
\* configured; a failed save leaves the database as it was.
C18_FailedSaveIsRetried ==
    /\ []((storeRunning /\ saveFailed /\ acknowledged) =>
            /\ isScheduled(saveDbTimer_)
            /\ saveDbTimer_.delay = saveDbTimerBackoff_.current)
    /\ [][ (saveFailed' /\ storeEvent' = "saveDbTimer") =>
              database_' = database_ ]_storeVars

\* the answer of a store holding database to a LOAD of key
LoadAnswer(database, key) ==
    IF key \in DOMAIN database
    THEN [success |-> TRUE, data |-> database[key]]
    ELSE [success |-> FALSE, data |-> ""]

\* C19: the destruction attempts one save of the database, whatever the
\* state of the save timer: not in dryrun, either the write failed or the
\* file decodes to the database; and a store constructed on the file its
\* predecessor wrote at its destruction answers every LOAD as the
\* predecessor would have at that moment.
C19_ShutdownRoundTrip ==
    [][ /\ (storeEvent' = "destroyed" /\ ~storeDryrun_) =>
              \/ saveFailed'
              \/ wroteToDisk' /\ DecodesTo(storageFile', database_)
        /\ (storeEvent' = "reconstructed"
              /\ shutdown \in {"saved", "savedPending"}) =>
              \A key \in StoreKeys :
                  LoadAnswer(database_', key) = LoadAnswer(database_, key) ]_storeVars

\* a store was destroyed while the file was behind its acknowledged
\* mutations, the last write succeeded, and its successor holds the entries
C19_Witness ==
    /\ storeEvent = "reconstructed"
    /\ shutdown = "savedPending"
    /\ DOMAIN database_ # {}
    /\ DOMAIN database_ # StoreKeys

(***************************************************************************)
(* The netlink route encoder (NetlinkRouteMessage)                         *)
(***************************************************************************)

\* an absent folly::Optional label, interface index, gateway, action
NoMplsLabel == -1
NoIfIndex == -1
NoGateway == [family |-> "AF_UNSPEC", addr |-> ""]
NoLabelAction == "NONE"
NoPushLabels == <<-1>>

\* the labels of the universe: a usual one, the largest 20-bit value and
\* the first value beyond 20 bits
NlLabels == {100, 1048575, 1048576}

NlGateways ==
    {[family |-> "AF_INET", addr |-> "192.0.2.1"],
     [family |-> "AF_INET6", addr |-> "2001:db8::1"]}

NlPushLabels ==
    {<<a>> : a \in NlLabels} \cup {<<a, b>> : a \in NlLabels, b \in NlLabels}

\* the fbnl::NextHop objects of the universe, by label action
NlNextHops ==
    [labelAction : {NoLabelAction}, pushLabels : {NoPushLabels},
     swapLabel : {NoMplsLabel}, gateway : NlGateways \cup {NoGateway},
     ifIndex : {3, NoIfIndex}]
    \cup
    [labelAction : {"PUSH"}, pushLabels : NlPushLabels \cup {NoPushLabels},
     swapLabel : {NoMplsLabel},
     gateway : {[family |-> "AF_INET", addr |-> "192.0.2.1"], NoGateway},
     ifIndex : {3}]
    \cup
    [labelAction : {"SWAP", "PHP"}, pushLabels : {NoPushLabels},
     swapLabel : NlLabels \cup {NoMplsLabel},
     gateway : NlGateways \cup {NoGateway}, ifIndex : {3}]
    \cup
    [labelAction : {"POP_AND_LOOKUP"}, pushLabels : {NoPushLabels},
     swapLabel : {NoMplsLabel}, gateway : {NoGateway},
     ifIndex : {1, NoIfIndex}]
    \cup
    [labelAction : {"UNKNOWN"}, pushLabels : {NoPushLabels},
     swapLabel : {NoMplsLabel}, gateway : {NoGateway}, ifIndex : {3}]

\* the protocol ids of the universe: openr's own (99) and static (4)
NlProtocolIds == {99, 4}

\* the optional route flags of the universe: absent or RTM_F_CLONED
NoRouteFlags == {}
NlRouteFlags == {NoRouteFlags, {"RTM_F_CLONED"}}

\* the nexthops that lack nothing their action needs, with the usual label
NlCompleteNextHops ==
    {path \in NlNextHops :
        /\ path.labelAction \in
               {NoLabelAction, "PUSH", "SWAP", "PHP", "POP_AND_LOOKUP"}
        /\ path.ifIndex # NoIfIndex
        /\ path.labelAction # "POP_AND_LOOKUP" => path.gateway # NoGateway
        /\ path.labelAction = "PUSH" => path.pushLabels = <<100>>
        /\ path.labelAction = "SWAP" => path.swapLabel = 100
        /\ path.labelAction = "PHP" => path.swapLabel = NoMplsLabel}

\* the fbnl::Route objects of the universe: no nexthop, one nexthop, or two
\* complete nexthops
NlRoutes ==
    [family : {"AF_INET", "AF_INET6", "AF_MPLS", "AF_UNSPEC"},
     type : {"RTN_UNICAST", "RTN_MULTICAST"},
     scope : {"RT_SCOPE_UNIVERSE", "RT_SCOPE_LINK"},
     protocolId : NlProtocolIds,
     flags : NlRouteFlags,
     destination : {[ip |-> "10.0.0.0", plen |-> 24]},
     mplsLabel : NlLabels \cup {NoMplsLabel},
     nextHops : {<<>>} \cup {<<path>> : path \in NlNextHops}
                \cup {<<first, second>> : first \in NlCompleteNextHops,
                                          second \in NlCompleteNextHops}]

NlOps == {"addRoute", "deleteRoute", "addLabelRoute", "deleteLabelRoute"}

kLabelSizeBits == 20

\* htonl(label << kLabelShift): the four bytes, in network order, of the
\* 32-bit value that holds the label in its upper 20 bits
ShiftedLabelBytes(label) ==
    <<(label \div 4096) % 256, (label \div 16) % 256, (label % 16) * 16, 0>>

\* htonl(1 << kLabelBosShift) or-ed into the entry: bit 0 of the third byte
WithBottomOfStack(bytes, bos) ==
    [bytes EXCEPT ![3] = @ + (IF bos THEN 1 ELSE 0)]

\* NetlinkRouteMessage::encodeLabel: a label beyond 20 bits becomes 0, the
\* label is shifted by kLabelShift and the bottom-of-stack bit is set
encodeLabel(label, bos) ==
    LET clamped == IF label > 1048575 THEN 0 ELSE label
    IN  WithBottomOfStack(ShiftedLabelBytes(clamped), bos)

\* sizeof(struct rtattr), sizeof(struct rtnexthop), sizeof(struct mpls_label),
\* sizeof(int) and sizeof(uint16_t)
sizeofRtattr == 4
sizeofRtnexthop == 8
sizeofMplsLabel == 4
sizeofInt == 4
sizeofUint16 == 2

\* struct nextHopV4 and struct nextHop, the {family, address} data of RTA_VIA
sizeofNextHopV4 == 5
sizeofNextHop == 17

\* RTA_ALIGN and RTNH_ALIGN round a length up to a multiple of 4
RTA_ALIGN(len) == ((len + 3) \div 4) * 4
RTNH_ALIGN(len) == ((len + 3) \div 4) * 4

\* RTA_LENGTH: the rta_len of an attribute with len bytes of data
RTA_LENGTH(len) == RTA_ALIGN(sizeofRtattr) + len

\* folly::IPAddress::byteCount of a gateway
byteCount(gateway) == IF gateway.family = "AF_INET" THEN 4 ELSE 16

\* addSubAttributes: rta_len of the container after a sub-attribute with len
\* bytes of data was appended at its aligned end
addSubAttributes(rtaLen, len) == RTA_ALIGN(rtaLen) + RTA_ALIGN(RTA_LENGTH(len))

\* the outcome of encoding one nexthop: the result code, the rtnexthop with
\* its rtnh_len, and rta_len of the container
NextHopOutcome(result, ifIndex, attributes, rtnhLen, rtaLen) ==
    [result |-> result,
     rtnh |-> [ifIndex |-> ifIndex, attributes |-> attributes,
               len |-> rtnhLen],
     rtaLen |-> rtaLen]

\* folly::Optional::value() of an absent value throws
OptionalEmpty == "OptionalEmptyException"

\* NetlinkRouteMessage::addIpNexthop
addIpNexthop(rtaLen, path, route) ==
    IF path.ifIndex = NoIfIndex
    THEN NextHopOutcome(OptionalEmpty, 0, <<>>, sizeofRtnexthop, rtaLen)
    ELSE IF path.gateway = NoGateway
    THEN IF route.type = "RTN_MULTICAST" \/ route.scope = "RT_SCOPE_LINK"
         THEN NextHopOutcome("SUCCESS", path.ifIndex, <<>>,
                  sizeofRtnexthop, rtaLen)
         ELSE NextHopOutcome("NO_NEXTHOP_IP", path.ifIndex, <<>>,
                  sizeofRtnexthop, rtaLen)
    ELSE NextHopOutcome("SUCCESS", path.ifIndex,
             <<[type |-> "RTA_GATEWAY", data |-> path.gateway.addr]>>,
             sizeofRtnexthop + byteCount(path.gateway) + sizeofRtattr,
             addSubAttributes(rtaLen, byteCount(path.gateway)))

\* NetlinkRouteMessage::addSwapOrPHPNexthop
addSwapOrPHPNexthop(rtaLen, path) ==
    LET newDst == IF path.swapLabel # NoMplsLabel
                  THEN <<[type |-> "RTA_NEWDST",
                          data |-> encodeLabel(path.swapLabel, TRUE)]>>
                  ELSE <<>>
        prevLen == rtaLen
        afterNewDst == IF path.swapLabel # NoMplsLabel
                       THEN addSubAttributes(rtaLen, sizeofMplsLabel)
                       ELSE rtaLen
        rtnhLen == sizeofRtnexthop + (afterNewDst - prevLen)
        viaLen == IF path.gateway.family = "AF_INET"
                  THEN sizeofNextHopV4 ELSE sizeofNextHop
    IN  IF path.ifIndex = NoIfIndex
        THEN NextHopOutcome(OptionalEmpty, 0, <<>>, sizeofRtnexthop, rtaLen)
        ELSE IF path.gateway = NoGateway
        THEN NextHopOutcome(OptionalEmpty, path.ifIndex, newDst,
                 rtnhLen, afterNewDst)
        ELSE NextHopOutcome("SUCCESS", path.ifIndex,
                 Append(newDst, [type |-> "RTA_VIA", data |-> path.gateway]),
                 rtnhLen + viaLen + sizeofRtattr,
                 addSubAttributes(afterNewDst, viaLen))

\* NetlinkRouteMessage::addPopNexthop
addPopNexthop(rtaLen, path) ==
    IF path.ifIndex = NoIfIndex
    THEN NextHopOutcome("NO_LOOPBACK_INDEX", 0, <<>>,
             sizeofRtnexthop, rtaLen)
    ELSE NextHopOutcome("SUCCESS", path.ifIndex,
             <<[type |-> "RTA_OIF", data |-> path.ifIndex]>>,
             sizeofRtnexthop + sizeofInt + sizeofRtattr,
             addSubAttributes(rtaLen, sizeofInt))

\* the label stack of a PUSH nexthop: only the last entry is bottom of stack
EncodedLabelStack(labels) ==
    [i \in 1..Len(labels) |-> encodeLabel(labels[i], i = Len(labels))]

\* NetlinkRouteMessage::addLabelNexthop
addLabelNexthop(rtaLen, path) ==
    LET prevLen == rtaLen
        afterEncap == addSubAttributes(rtaLen, 0)
        afterDst == addSubAttributes(afterEncap,
                        Len(path.pushLabels) * sizeofMplsLabel)
        afterType == addSubAttributes(afterDst, sizeofUint16)
        rtnhLen == sizeofRtnexthop + (afterType - prevLen)
        encap == <<[type |-> "RTA_ENCAP",
                    data |-> <<[type |-> "MPLS_IPTUNNEL_DST",
                                data |-> EncodedLabelStack(path.pushLabels)]>>],
                   [type |-> "RTA_ENCAP_TYPE", data |-> "LWTUNNEL_ENCAP_MPLS"]>>
    IN  IF path.ifIndex = NoIfIndex
        THEN NextHopOutcome(OptionalEmpty, 0, <<>>, sizeofRtnexthop, rtaLen)
        ELSE IF path.pushLabels = NoPushLabels
        THEN NextHopOutcome("NO_LABEL", path.ifIndex,
                 <<[type |-> "RTA_ENCAP", data |-> <<>>]>>,
                 sizeofRtnexthop, afterEncap)
        ELSE IF path.gateway = NoGateway
        THEN NextHopOutcome("NO_NEXTHOP_IP", path.ifIndex, encap,
                 rtnhLen, afterType)
        ELSE NextHopOutcome("SUCCESS", path.ifIndex,
                 Append(encap, [type |-> "RTA_GATEWAY",
                                data |-> path.gateway.addr]),
                 rtnhLen + byteCount(path.gateway) + sizeofRtattr,
                 addSubAttributes(afterType, byteCount(path.gateway)))

\* the switch on the label action in addMultiPathNexthop
EncodeNextHop(rtaLen, path, route) ==
    CASE path.labelAction = NoLabelAction -> addIpNexthop(rtaLen, path, route)
      [] path.labelAction = "PUSH" -> addLabelNexthop(rtaLen, path)
      [] path.labelAction \in {"SWAP", "PHP"} ->
             addSwapOrPHPNexthop(rtaLen, path)
      [] path.labelAction = "POP_AND_LOOKUP" -> addPopNexthop(rtaLen, path)
      [] OTHER -> NextHopOutcome("UNKNOWN_LABEL_ACTION", 0, <<>>,
                      sizeofRtnexthop, rtaLen)

\* one rtnexthop of the blob: where it starts in the container (at), its
\* fields, and where its sub-attributes end (rta_len when it was encoded)
PlacedNextHop(rtnh, at, rtaLen) ==
    [ifIndex |-> rtnh.ifIndex, attributes |-> rtnh.attributes,
     len |-> rtnh.len, at |-> at, end |-> rtaLen]

RECURSIVE EncodeNextHopsFrom(_, _, _, _, _)
\* the loop of addMultiPathNexthop from path i on, with rta_len of the
\* container and the offset of the current rtnexthop: it stops at the first
\* nexthop that fails, and moves to RTNH_NEXT(rtnh) otherwise
EncodeNextHopsFrom(i, route, encoded, rtaLen, rtnhAt) ==
    IF i > Len(route.nextHops)
    THEN [result |-> "SUCCESS", nexthops |-> encoded, rtaLen |-> rtaLen]
    ELSE LET outcome == EncodeNextHop(rtaLen + sizeofRtnexthop,
                            route.nextHops[i], route)
         IN  IF outcome.result # "SUCCESS"
             THEN [result |-> outcome.result, nexthops |-> encoded,
                   rtaLen |-> outcome.rtaLen]
             ELSE EncodeNextHopsFrom(i + 1, route,
                      Append(encoded,
                          PlacedNextHop(outcome.rtnh, rtnhAt, outcome.rtaLen)),
                      outcome.rtaLen,
                      rtnhAt + RTNH_ALIGN(outcome.rtnh.len))

\* NetlinkRouteMessage::addMultiPathNexthop: the container starts as an
\* empty attribute and the first rtnexthop is at RTA_DATA(rta)
addMultiPathNexthop(route) ==
    EncodeNextHopsFrom(1, route, <<>>, RTA_LENGTH(0), RTA_LENGTH(0))

\* NetlinkRouteMessage::addNextHops: RTA_MULTIPATH is copied into the
\* message, RTA_PAYLOAD bytes of it, only when every nexthop was encoded
addNextHops(route, message) ==
    IF route.nextHops = <<>>
    THEN [result |-> "SUCCESS", message |-> message]
    ELSE LET multiPath == addMultiPathNexthop(route)
         IN  IF multiPath.result # "SUCCESS"
             THEN [result |-> multiPath.result, message |-> message]
             ELSE [result |-> "SUCCESS",
                   message |->
                       [message EXCEPT !.attributes =
                            Append(@, [type |-> "RTA_MULTIPATH",
                                       data |-> multiPath.nexthops,
                                       len |-> RTA_LENGTH(multiPath.rtaLen
                                                   - RTA_LENGTH(0))])]]

\* NetlinkRouteMessage::init
init(type, rtFlags, route) ==
    [type |-> type,
     flags |-> {"NLM_F_REQUEST", "NLM_F_ACK"}
               \cup (IF type # "RTM_DELROUTE" THEN {"NLM_F_CREATE"} ELSE {})
               \cup (IF route.type # "RTN_MULTICAST"
                     THEN {"NLM_F_REPLACE"} ELSE {}),
     family |-> "AF_UNSPEC",
     dstLen |-> 0,
     table |-> "RT_TABLE_MAIN",
     protocol |-> route.protocolId,
     scope |-> "RT_SCOPE_UNIVERSE",
     rtmType |-> route.type,
     rtmFlags |-> rtFlags \cup route.flags,
     attributes |-> <<>>]

\* RTA_DST of an IP route
IpDestination(route) == [type |-> "RTA_DST", data |-> route.destination.ip]

\* RTA_DST of a label route
LabelDestination(route) ==
    [type |-> "RTA_DST", data |-> encodeLabel(route.mplsLabel, TRUE)]

\* the message header of an IP route with its destination
IpRouteMessage(type, route) ==
    [init(type, {"RTM_F_NOTIFY"}, route) EXCEPT
        !.family = route.family,
        !.dstLen = route.destination.plen,
        !.attributes = <<IpDestination(route)>>]

\* the message header of a label route, before the destination is added
LabelRouteHeader(type, route) ==
    [init(type, {}, route) EXCEPT !.family = "AF_MPLS",
                                  !.dstLen = kLabelSizeBits,
                                  !.rtmFlags = {}]

\* NetlinkRouteMessage::addRoute
addRoute ==
    /\ nlOp = "addRoute" /\ nlResult = "NONE"
    /\ IF nlRoute.family \notin {"AF_INET", "AF_INET6"}
       THEN /\ nlResult' = "INVALID_ADDRESS_FAMILY"
            /\ nlMessage' = nlMessage
       ELSE LET added == addNextHops(nlRoute,
                             IpRouteMessage("RTM_NEWROUTE", nlRoute))
            IN  /\ nlResult' = added.result
                /\ nlMessage' = added.message
    /\ UNCHANGED <<nlOp, nlRoute>>

\* what deleteRoute returns and leaves in the message
DeletedRoute(route, message) ==
    IF route.family \notin {"AF_INET", "AF_INET6"}
    THEN [result |-> "INVALID_ADDRESS_FAMILY", message |-> message]
    ELSE [result |-> "SUCCESS",
          message |-> IpRouteMessage("RTM_DELROUTE", route)]

\* NetlinkRouteMessage::deleteRoute
deleteRoute ==
    /\ nlOp = "deleteRoute" /\ nlResult = "NONE"
    /\ nlResult' = DeletedRoute(nlRoute, nlMessage).result
    /\ nlMessage' = DeletedRoute(nlRoute, nlMessage).message
    /\ UNCHANGED <<nlOp, nlRoute>>

\* NetlinkRouteMessage::addLabelRoute
addLabelRoute ==
    /\ nlOp = "addLabelRoute" /\ nlResult = "NONE"
    /\ LET header == LabelRouteHeader("RTM_NEWROUTE", nlRoute)
           added == addNextHops(nlRoute,
                        [header EXCEPT
                            !.attributes = <<LabelDestination(nlRoute)>>])
       IN  IF nlRoute.family # "AF_MPLS"
           THEN /\ nlResult' = "INVALID_ADDRESS_FAMILY"
                /\ nlMessage' = header
           ELSE IF nlRoute.mplsLabel = NoMplsLabel
           THEN /\ nlResult' = "NO_LABEL"
                /\ nlMessage' = header
           ELSE /\ nlResult' = added.result
                /\ nlMessage' = added.message
    /\ UNCHANGED <<nlOp, nlRoute>>

\* what deleteLabelRoute returns and leaves in the message
DeletedLabelRoute(route) ==
    LET header == LabelRouteHeader("RTM_DELROUTE", route)
    IN  IF route.mplsLabel = NoMplsLabel
        THEN [result |-> "NO_LABEL", message |-> header]
        ELSE [result |-> "SUCCESS",
              message |-> [header EXCEPT
                              !.attributes = <<LabelDestination(route)>>]]

\* NetlinkRouteMessage::deleteLabelRoute
deleteLabelRoute ==
    /\ nlOp = "deleteLabelRoute" /\ nlResult = "NONE"
    /\ nlResult' = DeletedLabelRoute(nlRoute).result
    /\ nlMessage' = DeletedLabelRoute(nlRoute).message
    /\ UNCHANGED <<nlOp, nlRoute>>

\* a fresh message and any route of the universe handed to any operation
InitNetlink ==
    /\ NoFib
    /\ NoStore
    /\ NoPerf
    /\ NoAgent
    /\ NoQuiet
    /\ nlOp \in NlOps
    /\ nlRoute \in NlRoutes
    /\ nlMessage = NewMessage
    /\ nlResult = "NONE"

NextNetlink ==
    \/ addRoute /\ UNCHANGED <<vars, storeVars, perfVars, agentVars, envVars>>
    \/ deleteRoute /\ UNCHANGED <<vars, storeVars, perfVars, agentVars, envVars>>
    \/ addLabelRoute /\ UNCHANGED <<vars, storeVars, perfVars, agentVars, envVars>>
    \/ deleteLabelRoute /\ UNCHANGED <<vars, storeVars, perfVars, agentVars, envVars>>

SpecNetlink == InitNetlink /\ [][NextNetlink]_nlVars

\* the labels the called operation encodes: the top label of a label route
\* and, when nexthops are added, their swap and push labels
RECURSIVE LabelsOfNextHops(_)
LabelsOfNextHops(nextHops) ==
    IF nextHops = <<>> THEN {}
    ELSE LET path == Head(nextHops)
         IN  (IF path.swapLabel # NoMplsLabel THEN {path.swapLabel} ELSE {})
             \cup (IF path.pushLabels # NoPushLabels
                   THEN {path.pushLabels[i] : i \in 1..Len(path.pushLabels)}
                   ELSE {})
             \cup LabelsOfNextHops(Tail(nextHops))

LabelsOfRoute(op, route) ==
    (IF op \in {"addLabelRoute", "deleteLabelRoute"}
        /\ route.mplsLabel # NoMplsLabel
     THEN {route.mplsLabel} ELSE {})
    \cup (IF op \in {"addRoute", "addLabelRoute"}
          THEN LabelsOfNextHops(route.nextHops) ELSE {})

LabelOutOfRange(label) == label < 0 \/ label >= 1048576

\* C20: encoding a route that contains an MPLS label outside [0, 2^20),
\* as top label, swap label or push label, returns a result other than
\* SUCCESS
C20_OutOfRangeLabelIsAnError ==
    (nlResult # "NONE" /\ \E label \in LabelsOfRoute(nlOp, nlRoute) :
                              LabelOutOfRange(label))
        => nlResult # "SUCCESS"

\* the operations that encode the nexthops of the route
AddsNextHops(op) == op \in {"addRoute", "addLabelRoute"}

\* the rtnexthop entries of the RTA_MULTIPATH attribute of a message
MultiPathOf(message) ==
    IF \E i \in 1..Len(message.attributes) :
           message.attributes[i].type = "RTA_MULTIPATH"
    THEN LET i == CHOOSE i \in 1..Len(message.attributes) :
                      message.attributes[i].type = "RTA_MULTIPATH"
         IN  message.attributes[i].data
    ELSE <<>>

\* the types of the sub-attributes of one rtnexthop, in order
AttributeTypes(rtnh) ==
    [i \in 1..Len(rtnh.attributes) |-> rtnh.attributes[i].type]

\* C21: the sub-attributes of a nexthop follow its label action: SWAP
\* gives RTA_NEWDST then RTA_VIA, PHP gives RTA_VIA only whatever its
\* swap label, and a SWAP nexthop without swap label is not encoded as PHP
C21_ActionDeterminesSubAttributes ==
    (AddsNextHops(nlOp) /\ nlResult = "SUCCESS") =>
        /\ Len(MultiPathOf(nlMessage)) = Len(nlRoute.nextHops)
        /\ \A i \in 1..Len(nlRoute.nextHops) :
               LET path == nlRoute.nextHops[i]
                   types == AttributeTypes(MultiPathOf(nlMessage)[i])
               IN  /\ path.labelAction = "SWAP" =>
                          types = <<"RTA_NEWDST", "RTA_VIA">>
                   /\ path.labelAction = "PHP" => types = <<"RTA_VIA">>

\* the operation gets as far as encoding the nexthops of the route
ReachesNextHops(op, route) ==
    \/ op = "addRoute" /\ route.family \in {"AF_INET", "AF_INET6"}
    \/ op = "addLabelRoute" /\ route.family = "AF_MPLS"
                            /\ route.mplsLabel # NoMplsLabel

\* a nexthop that lacks nothing its action needs, the gateway left aside
CompleteButGateway(path) ==
    /\ path.labelAction \in
           {NoLabelAction, "PUSH", "SWAP", "PHP", "POP_AND_LOOKUP"}
    /\ path.ifIndex # NoIfIndex
    /\ path.labelAction = "PUSH" => path.pushLabels # NoPushLabels

\* a nexthop that may do without a gateway
GatewayOptional(path, route) ==
    \/ path.labelAction = "POP_AND_LOOKUP"
    \/ /\ path.labelAction = NoLabelAction
       /\ route.type = "RTN_MULTICAST" \/ route.scope = "RT_SCOPE_LINK"

\* C22: a plain IP nexthop without gateway of a multicast or link-scope
\* route is encoded without RTA_GATEWAY; any other plain IP, PUSH, SWAP or
\* PHP nexthop without gateway fails the whole route with NO_NEXTHOP_IP and
\* no RTA_MULTIPATH is appended
C22_GatewayRequired ==
    (/\ nlResult # "NONE"
     /\ ReachesNextHops(nlOp, nlRoute)
     /\ \A i \in 1..Len(nlRoute.nextHops) :
            CompleteButGateway(nlRoute.nextHops[i])
     /\ \E i \in 1..Len(nlRoute.nextHops) :
            nlRoute.nextHops[i].gateway = NoGateway)
    => IF \A i \in 1..Len(nlRoute.nextHops) :
              nlRoute.nextHops[i].gateway = NoGateway
                  => GatewayOptional(nlRoute.nextHops[i], nlRoute)
       THEN /\ nlResult = "SUCCESS"
            /\ \A i \in 1..Len(nlRoute.nextHops) :
                   nlRoute.nextHops[i].gateway = NoGateway =>
                       \A j \in 1..Len(MultiPathOf(nlMessage)[i].attributes) :
                           MultiPathOf(nlMessage)[i].attributes[j].type
                               \notin {"RTA_GATEWAY", "RTA_VIA"}
       ELSE /\ nlResult = "NO_NEXTHOP_IP"
            /\ MultiPathOf(nlMessage) = <<>>

\* the routes that agree with a route on family and destination (prefix
\* and label) and differ in nexthops, type, protocol id, scope or flags
SameDestination(route) ==
    {[route EXCEPT !.type = type, !.scope = scope,
                   !.protocolId = protocolId, !.flags = flags,
                   !.nextHops = nextHops] :
        type \in {"RTN_UNICAST", "RTN_MULTICAST"},
        scope \in {"RT_SCOPE_UNIVERSE", "RT_SCOPE_LINK"},
        protocolId \in NlProtocolIds,
        flags \in NlRouteFlags,
        nextHops \in {<<>>,
                      <<[labelAction |-> "PUSH", pushLabels |-> <<100>>,
                         swapLabel |-> NoMplsLabel,
                         gateway |-> [family |-> "AF_INET",
                                      addr |-> "192.0.2.1"],
                         ifIndex |-> 3]>>}}

\* the delete message of a route, by the operation that builds it
DeleteMessage(op, route) ==
    IF op = "deleteRoute"
    THEN DeletedRoute(route, NewMessage)
    ELSE DeletedLabelRoute(route)

\* C23: a delete message carries no RTA_MULTIPATH, and routes that agree
\* on family and destination produce the same delete message
C23_DeleteDependsOnDestinationOnly ==
    (nlOp \in {"deleteRoute", "deleteLabelRoute"} /\ nlResult # "NONE") =>
        /\ MultiPathOf(nlMessage) = <<>>
        /\ \A other \in SameDestination(nlRoute) :
               DeleteMessage(nlOp, other) =
                   [result |-> nlResult, message |-> nlMessage]

\* C24: in non-dryrun mode, a publication processed while no full sync is
\* scheduled and dirty is true issues no RPC, whatever its delta, leaves
\* dirty true and schedules the full-sync timer with zero delay
C24_DirtySkipsDeltaAndSchedulesSync ==
    [][ (/\ lastEvent' \in AcceptedPublications
         /\ ~aborted'
         /\ ~dryrun_
         /\ ~isScheduled(syncRoutesTimer_)
         /\ dirtyRouteDb_) =>
            /\ rpcs' = <<>>
            /\ dirtyRouteDb_'
            /\ syncRoutesTimer_' = [scheduled |-> TRUE, delay |-> 0] ]_vars

\* an interface update that changed no route was processed while dirty
\* with no full sync pending, and the full sync is now scheduled
C24_Witness ==
    /\ ~dryrun_
    /\ lastEvent = "linkMonitorPublication"
    /\ lastSkip = "dirty"
    /\ lastDelta = EmptyDelta
    /\ rpcs = <<>>
    /\ dirtyRouteDb_
    /\ syncRoutesTimer_ = [scheduled |-> TRUE, delay |-> 0]

\* some RPC of the delta apply of the last publication threw
FailedDelta ==
    /\ lastEvent \in AcceptedPublications
    /\ \E i \in DOMAIN rpcs : ~rpcs[i].ok

\* C25: when an RPC of a delta apply throws, no further RPC of that delta
\* is issued, dirty is true, the client is dropped and the full sync is
\* scheduled, while route_db holds what the publication committed
C25_FailedDeltaSchedulesSync ==
    FailedDelta =>
        /\ \A i \in DOMAIN rpcs : ~rpcs[i].ok => i = Len(rpcs)
        /\ dirtyRouteDb_
        /\ ~client_
        /\ syncRoutesTimer_ = [scheduled |-> TRUE, delay |-> 0]
        /\ lastEvent = "decisionPublication" => SnapshotCommitted
        /\ lastEvent = "linkMonitorPublication" =>
               RouteDbIsSnapshotWithout(affectedSince)

\* the first RPC of a delta threw while a second one was due, and the new
\* snapshot is committed all the same
C25_Witness ==
    /\ lastEvent = "decisionPublication"
    /\ Len(rpcs) = 1
    /\ rpcs[1].op = "deleteUnicastRoutes"
    /\ ~rpcs[1].ok
    /\ DOMAIN lastDelta.unicastRoutesToUpdate # {}
    /\ DOMAIN routeDb_.unicastRoutes = DOMAIN lastDelta.unicastRoutesToUpdate
    /\ dirtyRouteDb_
    /\ ~client_
    /\ isScheduled(syncRoutesTimer_)

\* the callback of the step is a timer that ran a full sync against the agent
FullSyncRan ==
    /\ lastEvent' \in {"syncRoutesTimer", "syncFibTimer"}
    /\ rpcs' # <<>>

\* the delay of the retry that follows a failed full sync: 8 ms after a
\* success, then twice the previous delay, at most 4096 ms
RetryDelayAfter(backoff) ==
    IF backoff = 0 THEN 8
    ELSE IF 2 * backoff > 4096 THEN 4096 ELSE 2 * backoff

\* how a full sync ends, for the full syncs of the timers in timers
FullSyncEnds(timers) ==
    (FullSyncRan /\ lastEvent' \in timers) =>
        IF \A i \in DOMAIN rpcs' : rpcs'[i].ok
        THEN /\ ~dirtyRouteDb_'
             /\ expBackoff_' = 0
        ELSE /\ dirtyRouteDb_'
             /\ ~client_'
             /\ expBackoff_' = RetryDelayAfter(expBackoff_)
             /\ syncRoutesTimer_' =
                    [scheduled |-> TRUE, delay |-> RetryDelayAfter(expBackoff_)]

\* C26: every full sync, of the sync timer or of the periodic timer, ends
\* with dirty false and the backoff reset on success, and with dirty true,
\* the client dropped, the backoff increased and the sync timer rescheduled
\* after the backoff on failure
C26_FullSyncOutcome ==
    [][ FullSyncEnds({"syncRoutesTimer", "syncFibTimer"}) ]_vars

\* C27: on an InterfaceDatabase the affected interfaces are those recorded
\* up before and down in the message, an interface never seen counting as
\* down before; every interface of the message is then recorded with the
\* status of the message and the others keep their recorded status
C27_AffectedInterfaces ==
    [][ lastEvent' = "linkMonitorPublication" =>
          /\ lastAffected' =
                { ifName \in DOMAIN lastInterfaces' :
                    /\ ifName \in DOMAIN interfaceStatusDb_
                    /\ interfaceStatusDb_[ifName]
                    /\ ~lastInterfaces'[ifName] }
          /\ DOMAIN interfaceStatusDb_' =
                (DOMAIN interfaceStatusDb_) \cup (DOMAIN lastInterfaces')
          /\ \A ifName \in DOMAIN lastInterfaces' :
                interfaceStatusDb_'[ifName] = lastInterfaces'[ifName]
          /\ \A ifName \in (DOMAIN interfaceStatusDb_) \ (DOMAIN lastInterfaces') :
                interfaceStatusDb_'[ifName] = interfaceStatusDb_[ifName] ]_vars

\* a message reported eth0 and eth1 down: eth0 was up before and is
\* affected, eth1 was not and is not
C27_Witness ==
    /\ lastEvent = "linkMonitorPublication"
    /\ lastInterfaces = [ifName \in {"eth0", "eth1"} |-> FALSE]
    /\ lastAffected = {"eth0"}
    /\ interfaceStatusDb_ = [ifName \in {"eth0", "eth1"} |-> FALSE]

\* the nexthops of a route of routes, none when the route is not there
NextHopsOf(routes, key) ==
    IF key \in DOMAIN routes THEN routes[key].nextHops ELSE {}

\* the nexthops an interface update must keep: those without interface
\* name and those whose interface is not affected
Retained(nextHops, affected) ==
    { nextHop \in nextHops :
        nextHop.ifName = NoIfName \/ nextHop.ifName \notin affected }

\* an interface update was processed to its end
InterfaceUpdateDone ==
    /\ lastEvent' = "linkMonitorPublication"
    /\ ~aborted'

\* C28: an interface update removes from the stored routes exactly the
\* nexthops whose interface name is affected; an MPLS route holding a
\* nexthop without interface name is never deleted; an update with an empty
\* affected set leaves route_db unchanged and yields an empty delta
C28_InterfaceUpdateFrame ==
    [][ InterfaceUpdateDone =>
          /\ DOMAIN routeDb_'.unicastRoutes \subseteq DOMAIN routeDb_.unicastRoutes
          /\ DOMAIN routeDb_'.mplsRoutes \subseteq DOMAIN routeDb_.mplsRoutes
          /\ \A p \in DOMAIN routeDb_.unicastRoutes :
                NextHopsOf(routeDb_'.unicastRoutes, p) =
                    Retained(routeDb_.unicastRoutes[p].nextHops, lastAffected')
          /\ \A l \in DOMAIN routeDb_.mplsRoutes :
                /\ NextHopsOf(routeDb_'.mplsRoutes, l) =
                       Retained(routeDb_.mplsRoutes[l].nextHops, lastAffected')
                /\ (\E nextHop \in routeDb_.mplsRoutes[l].nextHops :
                        nextHop.ifName = NoIfName)
                       => l \in DOMAIN routeDb_'.mplsRoutes
          /\ lastAffected' = {} =>
                /\ routeDb_' = routeDb_
                /\ lastDelta' = EmptyDelta ]_vars

\* the health check of the step failed: aliveSince() threw or timed out
HealthCheckFailed ==
    /\ lastEvent' = "healthChecker"
    /\ ~rpcs'[1].ok

\* what every failed health check does
HealthCheckFailureDropsClient ==
    HealthCheckFailed =>
        /\ ~client_'
        /\ latestAliveSince_' = latestAliveSince_

\* C29: a failed aliveSince() sets dirty, drops the client and leaves a
\* full sync scheduled; last_alive_since keeps its value
C29_FailedHealthCheckSchedulesSync ==
    [][ /\ HealthCheckFailureDropsClient
        /\ HealthCheckFailed =>
              /\ dirtyRouteDb_'
              /\ isScheduled(syncRoutesTimer_') ]_vars

\* the callbacks that may ask for a full sync: a publication (failed delta,
\* dirty skip) and the health check (agent restart)
SyncRequesters == AcceptedPublications \cup {"healthChecker"}

\* the delays the full-sync timer is scheduled with
SyncDelays ==
    {0, ColdStartDuration} \cup
    { InitialBackoff * Pow2(n) : n \in 0..(MaxDoublings + 1) }

\* C30: a callback that asks for a full sync while the sync timer is
\* scheduled leaves the timer and its expiry as they are, one that asks
\* while it is idle schedules it at once, and the timer holds at most one
\* expiry, so at most one full sync is pending
C30_SyncSchedulingIdempotent ==
    [][ /\ (isScheduled(syncRoutesTimer_) /\ lastEvent' \in SyncRequesters)
              => syncRoutesTimer_' = syncRoutesTimer_
        /\ (~isScheduled(syncRoutesTimer_) /\ lastEvent' \in SyncRequesters)
              => syncRoutesTimer_' \in
                     {syncRoutesTimer_, [scheduled |-> TRUE, delay |-> 0]}
        /\ syncRoutesTimer_' \in
              {NotScheduled} \cup [scheduled : {TRUE}, delay : SyncDelays] ]_vars

\* the agent was seen restarted while the cold-start sync was pending:
\* dirty is set and the timer keeps its expiry
C30_Witness ==
    /\ lastEvent = "healthChecker"
    /\ rpcs[1].ok
    /\ coldStart
    /\ dirtyRouteDb_
    /\ latestAliveSince_ = 1
    /\ syncRoutesTimer_ = [scheduled |-> TRUE, delay |-> ColdStartDuration]

\* rta_len of the RTA_MULTIPATH attribute of a message
MultiPathLen(message) ==
    LET i == CHOOSE i \in 1..Len(message.attributes) :
                 message.attributes[i].type = "RTA_MULTIPATH"
    IN  message.attributes[i].len

RECURSIVE SumOfEntryLengths(_)
\* the sum of rtnh_len over the rtnexthop entries
SumOfEntryLengths(entries) ==
    IF entries = <<>> THEN 0
    ELSE Head(entries).len + SumOfEntryLengths(Tail(entries))

\* where the sub-attributes of the entry before entry i end: the container's
\* rta_len at that point
EndOfPrevious(entries, i) ==
    IF i = 1 THEN RTA_LENGTH(0) ELSE entries[i - 1].end

\* a route whose nexthops were all encoded into RTA_MULTIPATH
MultiPathEncoded ==
    AddsNextHops(nlOp) /\ nlResult = "SUCCESS" /\ nlRoute.nextHops # <<>>

\* every rtnexthop starts where the sub-attributes of the one before end
EntriesContiguous(entries) ==
    \A i \in 1..Len(entries) : entries[i].at = EndOfPrevious(entries, i)

\* C31: length bookkeeping of the multipath blob: rtnh_len of each entry
\* equals what rta_len of the container grew by for that entry, rta_len is
\* the attribute header plus the sum of the entries' lengths, and each
\* rtnexthop starts where the sub-attributes of the previous one end
C31_MultiPathLengthBookkeeping ==
    MultiPathEncoded =>
        LET entries == MultiPathOf(nlMessage)
        IN  /\ \A i \in 1..Len(entries) :
                   entries[i].len = entries[i].end - EndOfPrevious(entries, i)
            /\ MultiPathLen(nlMessage)
                   = RTA_LENGTH(0) + SumOfEntryLengths(entries)
            /\ EntriesContiguous(entries)

(***************************************************************************)
(* Convergence traces (Fib::logPerfEvents, Fib::dumpPerfDb)                *)
(*                                                                         *)
(* A trace (thrift::PerfEvents) is kept as the unixTs of its events; the   *)
(* code reads the first one and the distance to the last one, so the       *)
(* events between the first and the last are not kept.  A callback runs    *)
(* at one reading of the clock.                                            *)
(***************************************************************************)

\* the clock values of the universe
PerfTimestamps == {1, 2, 3}

\* the perfEvents of a publication: absent, without event, or with the
\* event of its origin
PublishedPerfEvents ==
    {NoPerfEvents, <<>>} \cup {<<unixTs>> : unixTs \in PerfTimestamps}

\* Constants::kPerfBufferSize and Constants::kConvergenceMaxDuration
kPerfBufferSize == 3
kConvergenceMaxDuration == 1

\* addPerfEvent: one more event, created now, at the end of the trace
addPerfEvent(perfEvents, now) ==
    IF perfEvents = <<>> THEN <<now>> ELSE <<perfEvents[1], now>>

\* getTotalPerfEventsDuration: from the first event to the last
getTotalPerfEventsDuration(perfEvents) ==
    perfEvents[Len(perfEvents)] - perfEvents[1]

RECURSIVE PurgeExtraEntriesWhenOver(_)
\* slip: entries are purged only when the ring is over its capacity
PurgeExtraEntriesWhenOver(perfDb) ==
    IF Len(perfDb) > kPerfBufferSize
    THEN PurgeExtraEntriesWhenOver(Tail(perfDb))
    ELSE perfDb

RECURSIVE PurgeExtraEntries(_)
\* while (perfDb_.size() >= kPerfBufferSize) perfDb_.pop_front()
PurgeExtraEntries(perfDb) ==
    IF Len(perfDb) >= kPerfBufferSize
    THEN PurgeExtraEntries(Tail(perfDb))
    ELSE perfDb

\* the trace is left as it is, and so is the ring
KeepTrace(perfEvents, outcome) ==
    /\ maybePerfEvents_' = perfEvents
    /\ perfEvent' = outcome
    /\ UNCHANGED <<perfDb_, recentPerfEventCreateTs_, perfLogged>>

\* Fib::logPerfEvents on the trace perfEvents, the clock reading now
logPerfEvents(perfEvents, now) ==
    IF perfEvents = NoPerfEvents \/ Len(perfEvents) = 0
    THEN KeepTrace(perfEvents, "nothing")
    ELSE IF recentPerfEventCreateTs_ >= perfEvents[1]
    THEN KeepTrace(perfEvents, "ignoredOld")
    ELSE LET programmed == addPerfEvent(perfEvents, now)
             totalDuration == getTotalPerfEventsDuration(programmed)
         IN  /\ recentPerfEventCreateTs_' = perfEvents[1]
             /\ IF totalDuration < 0 \/ totalDuration > kConvergenceMaxDuration
                THEN /\ maybePerfEvents_' = programmed
                     /\ perfEvent' = "ignoredBad"
                     /\ UNCHANGED <<perfDb_, perfLogged>>
                ELSE /\ perfDb_' = PurgeExtraEntries(Append(perfDb_, programmed))
                     /\ perfLogged' = Append(perfLogged, programmed)
                     /\ maybePerfEvents_' = NoPerfEvents
                     /\ perfEvent' = "logged"

\* every RPC the callback made returned
RpcsReturned == \A i \in 1..Len(rpcs') : rpcs'[i].ok

\* the FIB_DEBOUNCE event at the start of the try blocks
Debounced(perfEvents, now) ==
    IF perfEvents # NoPerfEvents
    THEN addPerfEvent(perfEvents, now) ELSE perfEvents

\* what Fib::updateRoutes does with the trace: logged in dryrun and after
\* the last RPC returned, left alone when the delta is skipped
updateRoutesPerf(perfEvents, now) ==
    IF lastSkip' = "dryrun"
    THEN logPerfEvents(perfEvents, now)
    ELSE IF lastSkip' \in {"pendingSync", "dirty"}
    THEN KeepTrace(perfEvents, "nothing")
    ELSE IF RpcsReturned
    THEN logPerfEvents(Debounced(perfEvents, now), now)
    ELSE KeepTrace(Debounced(perfEvents, now), "nothing")

\* what Fib::syncRouteDb does with the trace
syncRouteDbPerf(now) ==
    IF dryrun_
    THEN logPerfEvents(maybePerfEvents_, now)
    ELSE IF RpcsReturned
    THEN logPerfEvents(Debounced(maybePerfEvents_, now), now)
    ELSE KeepTrace(Debounced(maybePerfEvents_, now), "nothing")

\* the perfEvents of a publication replace the trace being programmed and
\* get the event of their reception
Received(perfEvents, now) ==
    IF perfEvents # NoPerfEvents
    THEN addPerfEvent(perfEvents, now) ELSE maybePerfEvents_

\* the trace in processRouteDb and processInterfaceDb: a dropped
\* publication is not processed, and a failed CHECK ends the callback
PublicationPerf(perfEvents, now) ==
    IF lastEvent' \notin AcceptedPublications
    THEN KeepTrace(maybePerfEvents_, "nothing")
    ELSE IF aborted'
    THEN KeepTrace(Received(perfEvents, now), "nothing")
    ELSE updateRoutesPerf(Received(perfEvents, now), now)

\* the trace in the callback of syncRoutesTimer_
SyncRoutesTimerPerf(now) == syncRouteDbPerf(now)

\* the trace in the callback of syncFibTimer_, which syncs when no full
\* sync is scheduled
SyncFibTimerPerf(now) ==
    IF ~isScheduled(syncRoutesTimer_)
    THEN syncRouteDbPerf(now)
    ELSE KeepTrace(maybePerfEvents_, "nothing")

RECURSIVE EmplacedFrom(_, _)
\* the loop of dumpPerfDb: the traces from the front of the ring on
EmplacedFrom(perfDb, eventInfo) ==
    IF perfDb = <<>> THEN eventInfo
    ELSE EmplacedFrom(Tail(perfDb), Append(eventInfo, Head(perfDb)))

\* Fib::dumpPerfDb
dumpPerfDb == [thisNodeName |-> MyNodeName,
               eventInfo |-> EmplacedFrom(perfDb_, <<>>)]

\* Fib::processRequestMsg on PERF_DB_GET
PerfDbGet ==
    /\ ~aborted
    /\ perfReply' = dumpPerfDb
    /\ perfEvent' = "get"
    /\ UNCHANGED <<perfDb_, maybePerfEvents_, recentPerfEventCreateTs_,
                   perfLogged>>
    /\ UNCHANGED vars

\* the publications of SpecPerf: one unicast route, one interface that is up
PerfRouteDatabases ==
    {db \in SmallRouteDatabases :
        /\ db.thisNodeName = MyNodeName
        /\ DOMAIN db.unicastRoutes = Prefixes
        /\ DOMAIN db.mplsRoutes = {}}

PerfInterfaceDatabases ==
    {db \in SmallInterfaceDatabases :
        /\ db.thisNodeName = MyNodeName
        /\ DOMAIN db.interfaces = {"eth0"}
        /\ db.interfaces["eth0"]}

InitPerf ==
    /\ Init
    /\ enableFibSync_
    /\ ~enableSegmentRouting_

NextPerf ==
    \/ \E thriftRouteDb \in PerfRouteDatabases,
          perfEvents \in PublishedPerfEvents, now \in PerfTimestamps :
         DecisionPublication(thriftRouteDb) /\ RecordSnapshot(thriftRouteDb)
         /\ PublicationPerf(perfEvents, now)
         /\ perfReply' = NoPerfReply
         /\ UNCHANGED <<storeVars, nlVars, agentVars, envVars>>
    \/ \E thriftInterfaceDb \in PerfInterfaceDatabases,
          perfEvents \in PublishedPerfEvents, now \in PerfTimestamps :
         LinkMonitorPublication(thriftInterfaceDb)
         /\ RecordInterfaces(thriftInterfaceDb)
         /\ PublicationPerf(perfEvents, now)
         /\ perfReply' = NoPerfReply
         /\ UNCHANGED <<storeVars, nlVars, agentVars, envVars>>
    \/ \E now \in PerfTimestamps :
         SyncRoutesTimerFires /\ RecordTimer
         /\ SyncRoutesTimerPerf(now)
         /\ perfReply' = NoPerfReply
         /\ UNCHANGED <<storeVars, nlVars, agentVars, envVars>>
    \/ \E now \in PerfTimestamps :
         SyncFibTimerFires /\ RecordTimer
         /\ SyncFibTimerPerf(now)
         /\ perfReply' = NoPerfReply
         /\ UNCHANGED <<storeVars, nlVars, agentVars, envVars>>
    \/ PerfDbGet /\ UNCHANGED <<storeVars, nlVars, agentVars, envVars>>

SpecPerf == InitPerf /\ [][NextPerf]_<<vars, perfVars>>

\* the traces from position k + 1 of the log on
LoggedFrom(k) == SubSeq(perfLogged', k + 1, Len(perfLogged'))

\* C32: the ring of convergence traces is bounded: the number of stored
\* traces stays below kPerfBufferSize, the stored traces are the newest of
\* the logged ones in the order they were logged (the oldest is evicted
\* first), and PERF_DB_GET returns them oldest to newest and changes no
\* state of the reconciler
C32_PerfRingBounded ==
    [][ /\ Len(perfDb_') < kPerfBufferSize
        /\ \E k \in 0..Len(perfLogged') : perfDb_' = LoggedFrom(k)
        /\ perfEvent' = "get" =>
               /\ perfReply'.eventInfo = perfDb_
               /\ UNCHANGED <<vars, perfDb_, maybePerfEvents_,
                              recentPerfEventCreateTs_>> ]_<<vars, perfVars>>

\* PERF_DB_GET answered with a full ring from which the oldest trace was
\* evicted
C32_Witness ==
    /\ perfEvent = "get"
    /\ Len(perfLogged) > Len(perfDb_)
    /\ Len(perfDb_) = kPerfBufferSize - 1
    /\ perfReply.eventInfo = perfDb_
    /\ perfDb_[1] # perfDb_[2]

(***************************************************************************)
(* The forwarding agent (FibService) behind the agent client               *)
(***************************************************************************)

\* the routes of table, with those of routes added or replaced
Upserted(table, routes) ==
    [key \in DOMAIN table \cup DOMAIN routes |->
        IF key \in DOMAIN routes THEN routes[key] ELSE table[key]]

\* the routes of table, without those of keys
Removed(table, keys) == Restrict(table, DOMAIN table \ keys)

\* the agent's tables after it carried out one RPC
AgentAfter(tables, rpc) ==
    CASE rpc.op = "addUnicastRoutes" ->
             [tables EXCEPT !.unicast = Upserted(@, rpc.arg)]
      [] rpc.op = "deleteUnicastRoutes" ->
             [tables EXCEPT !.unicast = Removed(@, rpc.arg)]
      [] rpc.op = "syncFib" -> [tables EXCEPT !.unicast = rpc.arg]
      [] rpc.op = "addMplsRoutes" ->
             [tables EXCEPT !.mpls = Upserted(@, rpc.arg)]
      [] rpc.op = "deleteMplsRoutes" ->
             [tables EXCEPT !.mpls = Removed(@, rpc.arg)]
      [] rpc.op = "syncMplsFib" -> [tables EXCEPT !.mpls = rpc.arg]
      [] OTHER -> tables

RECURSIVE AgentAfterAll(_, _, _)
\* the agent's tables after the RPCs of one callback: an RPC that returned
\* was carried out; one that threw was carried out or not (lostApplied)
AgentAfterAll(tables, issued, lostApplied) ==
    IF issued = <<>> THEN tables
    ELSE LET rpc == Head(issued)
         IN  AgentAfterAll(IF rpc.ok \/ lostApplied
                           THEN AgentAfter(tables, rpc) ELSE tables,
                           Tail(issued), lostApplied)

\* the callback made a full sync and every RPC of it returned
FullSyncReturned ==
    /\ rpcs' # <<>>
    /\ \A i \in 1..Len(rpcs') : rpcs'[i].ok /\ rpcs'[i].op \in SyncOps

\* what the agent does in a callback of the reconciler: it carries out the
\* RPCs made and answers aliveSince() with its epoch
AgentServes ==
    /\ \A i \in 1..Len(rpcs') :
           (rpcs'[i].op = "aliveSince" /\ rpcs'[i].ok)
               => rpcs'[i].arg = agentAliveSince
    /\ \E lostApplied \in BOOLEAN :
           LET tables == AgentAfterAll([unicast |-> agentUnicast,
                                        mpls |-> agentMpls],
                                       rpcs', lostApplied)
           IN  /\ agentUnicast' = tables.unicast
               /\ agentMpls' = tables.mpls
    /\ agentServed' = (agentServed \/ \E i \in 1..Len(rpcs') : rpcs'[i].ok)
    /\ agentSynced' = (agentSynced \/ FullSyncReturned)
    /\ UNCHANGED agentAliveSince

\* the agent restarts: it loses its tables and answers with a new epoch
AgentRestarts ==
    /\ ~dryrun_
    /\ agentAliveSince < MaxRestarts + 1
    /\ agentAliveSince' = agentAliveSince + 1
    /\ agentUnicast' = EmptyFunction
    /\ agentMpls' = EmptyFunction
    /\ agentServed' = FALSE
    /\ agentSynced' = FALSE
    /\ UNCHANGED vars

\* the reconciler programs an agent: it does not run in dryrun, and it
\* syncs periodically
InitAgent ==
    /\ Init
    /\ ~dryrun_
    /\ enableFibSync_

NextAgent ==
    \/ \E thriftRouteDb \in LocalRouteDatabases \cap SmallRouteDatabases :
         DecisionPublication(thriftRouteDb) /\ RecordSnapshot(thriftRouteDb)
         /\ AgentServes
         /\ UNCHANGED <<storeVars, nlVars, perfVars, envVars>>
    \/ \E thriftInterfaceDb \in
              LocalInterfaceDatabases \cap SmallInterfaceDatabases :
         LinkMonitorPublication(thriftInterfaceDb)
         /\ RecordInterfaces(thriftInterfaceDb)
         /\ AgentServes
         /\ UNCHANGED <<storeVars, nlVars, perfVars, envVars>>
    \/ SyncRoutesTimerFires /\ RecordTimer /\ AgentServes
         /\ UNCHANGED <<storeVars, nlVars, perfVars, envVars>>
    \/ SyncFibTimerFires /\ RecordTimer /\ AgentServes
         /\ UNCHANGED <<storeVars, nlVars, perfVars, envVars>>
    \/ HealthCheckerFires /\ RecordTimer /\ AgentServes
         /\ UNCHANGED <<storeVars, nlVars, perfVars, envVars>>
    \/ AgentRestarts /\ UNCHANGED <<storeVars, nlVars, perfVars, envVars>>

SpecAgent == InitAgent /\ [][NextAgent]_<<vars, agentVars>>

\* the agent's tables are what a full sync of routeDb_ would leave
AgentMatchesRouteDb ==
    /\ agentUnicast = createUnicastRoutesWithBestNexthops(routeDb_.unicastRoutes)
    /\ enableSegmentRouting_ =>
           agentMpls = createMplsRoutesWithBestNextHops(routeDb_.mplsRoutes)

\* after the cold-start sync, nothing is left to program
Settled ==
    /\ ~dryrun_
    /\ ~coldStart
    /\ ~dirtyRouteDb_
    /\ ~isScheduled(syncRoutesTimer_)

\* C33: in non-dryrun mode, in every state after the cold-start sync where
\* dirty is false, no full sync is scheduled and the agent has not
\* restarted since the last RPC that returned, the agent's unicast table
\* is the best-nexthop projection of routeDb_, and with segment routing so
\* is its MPLS table
C33_AgentConsistent == (Settled /\ agentServed) => AgentMatchesRouteDb

\* C33 amended: the same, for an agent that has not restarted since the
\* last full sync that succeeded
C33_AgentConsistentSinceFullSync ==
    (Settled /\ agentSynced) => AgentMatchesRouteDb

\* after a restart and a full sync, an interface update was programmed as
\* a delta and nothing is left to program
C33_Witness ==
    /\ Settled
    /\ agentSynced
    /\ agentAliveSince > 1
    /\ lastEvent = "linkMonitorPublication"
    /\ rpcs # <<>>
    /\ DOMAIN agentUnicast # {}

(***************************************************************************)
(* SpecRecovery: the reconciler and its agent until the surroundings go    *)
(* quiet, and from then on: the snapshots of the local node arrive and the *)
(* RPCs may fail until then. The three timers fire fairly.                 *)
(***************************************************************************)
\* some RPC of the step failed
RpcFailed == \E i \in 1..Len(rpcs') : ~rpcs'[i].ok

\* what set dirtyRouteDb_ in the step, if anything did: updateRoutes after
\* a failed delta, syncRouteDb after a failed sync (from either timer),
\* keepAliveCheck after a new epoch
CauseOfDirty ==
    IF ~dirtyRouteDb_' THEN NoCause
    ELSE IF lastEvent' = "decisionPublication" /\ RpcFailed
         THEN "failedDelta"
    ELSE IF lastEvent' = "syncRoutesTimer" /\ RpcFailed
         THEN "failedTimerSync"
    ELSE IF lastEvent' = "syncFibTimer" /\ RpcFailed
         THEN "failedPeriodicSync"
    ELSE IF lastEvent' = "healthChecker"
              /\ latestAliveSince_' # latestAliveSince_
         THEN "agentRestart"
    ELSE dirtyCause

\* a step of the reconciler seen from its surroundings: once quiet, every
\* RPC returns
Surroundings ==
    /\ quiet => ~RpcFailed
    /\ dirtyCause' = CauseOfDirty
    /\ recoveredFrom' =
          IF quiet /\ dirtyRouteDb_ /\ ~dirtyRouteDb_' /\ recoveredFrom = NoCause
          THEN dirtyCause
          ELSE recoveredFrom
    /\ UNCHANGED quiet

\* from now on every RPC returns and no publication arrives
BecomeQuiet ==
    /\ ~quiet
    /\ quiet' = TRUE
    /\ UNCHANGED <<vars, agentVars, dirtyCause, recoveredFrom>>

RecoveryRouteDatabases ==
    { db \in LocalRouteDatabases \cap SmallRouteDatabases :
        DOMAIN db.mplsRoutes = {} }

RecoveryPublication ==
    /\ ~quiet
    /\ \E thriftRouteDb \in RecoveryRouteDatabases :
         DecisionPublication(thriftRouteDb) /\ RecordSnapshot(thriftRouteDb)
    /\ AgentServes
    /\ Surroundings
    /\ UNCHANGED <<storeVars, nlVars, perfVars>>

RecoverySyncRoutesTimer ==
    /\ SyncRoutesTimerFires /\ RecordTimer
    /\ AgentServes
    /\ Surroundings
    /\ UNCHANGED <<storeVars, nlVars, perfVars>>

RecoverySyncFibTimer ==
    /\ SyncFibTimerFires /\ RecordTimer
    /\ AgentServes
    /\ Surroundings
    /\ UNCHANGED <<storeVars, nlVars, perfVars>>

RecoveryHealthChecker ==
    /\ HealthCheckerFires /\ RecordTimer
    /\ AgentServes
    /\ Surroundings
    /\ UNCHANGED <<storeVars, nlVars, perfVars>>

\* the reconciler programs an agent, with or without periodic sync
InitRecovery ==
    /\ Init
    /\ ~dryrun_
    /\ ~enableSegmentRouting_

NextRecovery ==
    \/ RecoveryPublication
    \/ RecoverySyncRoutesTimer
    \/ RecoverySyncFibTimer
    \/ RecoveryHealthChecker
    \/ AgentRestarts /\ UNCHANGED <<storeVars, nlVars, perfVars, envVars>>
    \/ BecomeQuiet /\ UNCHANGED <<storeVars, nlVars, perfVars>>

recoveryVars == <<vars, agentVars, envVars>>

SpecRecovery ==
    /\ InitRecovery
    /\ [][NextRecovery]_recoveryVars
    /\ WF_recoveryVars(RecoverySyncRoutesTimer)
    /\ WF_recoveryVars(RecoverySyncFibTimer)
    /\ WF_recoveryVars(RecoveryHealthChecker)

\* the last callback performed a full sync of the whole routeDb_, and it
\* succeeded
FullSyncPerformed ==
    /\ lastEvent \in {"syncRoutesTimer", "syncFibTimer"}
    /\ IsFullSyncOf(rpcs, routeDb_)
    /\ \A i \in DOMAIN rpcs : rpcs[i].ok
    /\ ~dirtyRouteDb_

\* C34: in non-dryrun mode, with the timers firing fairly, once every RPC
\* returns and no publication arrives, a state with dirtyRouteDb_ set leads
\* to a full sync of the whole routeDb_ that succeeds, and to dirtyRouteDb_
\* being false for good, whatever set it and with or without periodic sync
C34_RecoveryLiveness ==
    /\ (quiet /\ dirtyRouteDb_) ~> FullSyncPerformed
    /\ (quiet /\ dirtyRouteDb_) ~> [](~dirtyRouteDb_)

\* without periodic sync, a delta failed, and once quiet the sync timer ran
\* the full sync that cleared dirtyRouteDb_
C34_Witness ==
    /\ quiet
    /\ ~enableFibSync_
    /\ recoveredFrom = "failedDelta"
    /\ FullSyncPerformed

====
